---- MODULE Spec2Model ----
(***************************************************************************)
(* Verification model of chefs_assistant: the weekly-plan session manager, *)
(* the seasonal recipe selector, the browse-page session state and the     *)
(* Google Drive storage layer.                                             *)
(***************************************************************************)
EXTENDS Bags, FiniteSets, Integers, Naturals, Sequences, TLC

(***************************************************************************)
(* Bounds of the model                                                     *)
(***************************************************************************)
\* number of user operations explored in one session
MaxSteps == 3
\* longest week list built by hand (add_recipe_to_week / add_recipe)
MaxWeekLen == 2
\* largest meals_per_week the profile slider is moved to in the model
MaxMeals == 2
\* longest recipe list handed to the selector on its own
MaxSelLen == 3
\* largest requested count handed to the selector on its own
MaxSelNum == 3
\* number of storage calls made in a row against one Drive
MaxDriveOps == 3
\* calls of the settings utilities followed across sessions
MaxSettingsOps == 5
\* operations of the recipe viewer followed in one session
MaxViewOps == 3
\* largest index another page can have left in selected_recipe_idx
MaxViewIdx == 3
\* operations followed on one integration client
MaxClientOps == 3
\* lines the bridge writes to one stream
MaxBridgeLines == 2
\* operations followed on the credential store
MaxCredOps == 4
\* operations followed on one Recipe object
MaxRecipeOps == 4
\* storage operations one session starts while another session is active
MaxRaceOps == 2

(***************************************************************************)
(* Data: recipes are dictionaries; the fields the modelled code reads are  *)
(* 'name' and 'collections'.  `seasons` is the set of season names found   *)
(* in 'collections'; `malformed` marks a 'collections' value the           *)
(* categorizer cannot iterate (None, or a dict entry without 'name').      *)
(***************************************************************************)
\* Python's None for an optional value, and a present value
Absent == [present |-> FALSE]
Some(x) == [present |-> TRUE, data |-> x]
\* an empty dict
EmptyDict == [k \in {} |-> <<>>]
\* no folder id (a real id is a positive position)
NoId == 0

\* Season literals ("Vår" and "Høst" written in ASCII)
Seasons == {"Vinter", "Var", "Sommer", "Host"}

RecipeWinter == [id |-> 1, name |-> "a", seasons |-> {"Vinter"}, malformed |-> FALSE]
RecipePlain  == [id |-> 2, name |-> "b", seasons |-> {}, malformed |-> FALSE]
RecipeTwin   == [id |-> 3, name |-> "a", seasons |-> {"Sommer", "Host"}, malformed |-> FALSE]
RecipeBroken == [id |-> 4, name |-> "c", seasons |-> {}, malformed |-> TRUE]

Catalogue == {RecipeWinter, RecipePlain, RecipeTwin, RecipeBroken}
RecipeNames == {r.name : r \in Catalogue}

\* generic sequence helpers
Range(s) == {s[i] : i \in DOMAIN s}
RemoveAt(s, i) == SubSeq(s, 1, i - 1) \o SubSeq(s, i + 1, Len(s))
Min(a, b) == IF a <= b THEN a ELSE b
SeqsUpTo(S, n) == UNION {[1..k -> S] : k \in 0..n}
NamesOf(s) == {s[i].name : i \in DOMAIN s}
HasDuplicateNames(s) == \E i, j \in DOMAIN s : i # j /\ s[i].name = s[j].name
\* [r for r in recipes if r.get('name', '') not in used]
RECURSIVE FilterUnused(_, _)
FilterUnused(s, used) ==
    IF s = <<>> THEN <<>>
    ELSE IF Head(s).name \in used THEN FilterUnused(Tail(s), used)
         ELSE <<Head(s)>> \o FilterUnused(Tail(s), used)
\* number of positions of list s that hold r
Occurrences(s, r) == Cardinality({i \in DOMAIN s : s[i] = r})
\* random.sample(population, k): k distinct positions, in any order
Sample(population, k) ==
    {[i \in 1..k |-> population[f[i]]] :
        f \in {g \in [1..k -> DOMAIN population] :
                  \A x, y \in 1..k : x # y => g[x] # g[y]}}

(***************************************************************************)
(* utils/seasonal_recipe_selector.py                                       *)
(***************************************************************************)
SEASONAL_ADJACENCY ==
    [Vinter |-> [previous |-> "Host",   next |-> "Var",    opposite |-> "Sommer"],
     Var    |-> [previous |-> "Vinter", next |-> "Sommer", opposite |-> "Host"],
     Sommer |-> [previous |-> "Var",    next |-> "Host",   opposite |-> "Vinter"],
     Host   |-> [previous |-> "Sommer", next |-> "Vinter", opposite |-> "Var"]]

\* get_seasonal_weights, already scaled by int(weight * 100)
get_seasonal_weights(current_season) ==
    LET adj == SEASONAL_ADJACENCY[current_season]
    IN  [s \in {current_season, adj.previous, adj.next, adj.opposite} |->
            IF s = current_season THEN 50
            ELSE IF s = adj.opposite THEN 10
            ELSE 20]

\* weight of the untagged bucket
base_weight == 10

\* categorize_recipes_by_season raises on a recipe it cannot read
CategorizeRaises(recipes) == \E i \in DOMAIN recipes : recipes[i].malformed

\* the bucket a recipe is put in: each of its seasons, else "untagged"
BucketsOf(r) == IF r.seasons # {} THEN r.seasons ELSE {"untagged"}

\* categorized[bucket] after the duplicate-avoidance filter, as a list
RECURSIVE BucketUnfiltered(_, _, _)
BucketUnfiltered(recipes, bucket, used) ==
    IF recipes = <<>> THEN <<>>
    ELSE (IF bucket \in BucketsOf(Head(recipes)) THEN <<Head(recipes)>> ELSE <<>>)
         \o BucketUnfiltered(Tail(recipes), bucket, used)
RECURSIVE Bucket(_, _, _)
Bucket(recipes, bucket, used) ==
    IF recipes = <<>> THEN <<>>
    ELSE LET r == Head(recipes)
             keep == /\ bucket \in BucketsOf(r)
                     /\ ~(used # {} /\ r.name \in used)
         IN  (IF keep THEN <<r>> ELSE <<>>) \o Bucket(Tail(recipes), bucket, used)

\* copies of r that the buckets named in S put into weighted_pool
RECURSIVE SeasonalCopies(_, _, _, _, _)
SeasonalCopies(recipes, w, S, used, r) ==
    IF S = {} THEN 0
    ELSE LET s == CHOOSE x \in S : TRUE
         IN  w[s] * Occurrences(Bucket(recipes, s, used), r)
             + SeasonalCopies(recipes, w, S \ {s}, used, r)

\* the weighted pool as a bag: recipe -> number of copies in weighted_pool
WeightedPool(recipes, current_season, used) ==
    LET w == get_seasonal_weights(current_season)
        copies(r) == SeasonalCopies(recipes, w, DOMAIN w, used, r)
                     + base_weight * Occurrences(Bucket(recipes, "untagged", used), r)
        members == {r \in Range(recipes) : copies(r) > 0}
    IN  [r \in members |-> copies(r)]

\* weighted_pool = [r for r in weighted_pool if r.get('name', '') != recipe_name]
Purge(pool, recipe_name) ==
    [r \in {x \in DOMAIN pool : x.name # recipe_name} |-> pool[r]]

\* the loop condition of the draw loop, with the break on an empty pool
DrawContinuesOneMore(st, num_recipes) ==
    /\ Len(st.selected) <= num_recipes
    /\ st.attempts < st.max_attempts
    /\ DOMAIN st.pool # {}
DrawContinues(st, num_recipes) ==
    /\ Len(st.selected) < num_recipes
    /\ st.attempts < st.max_attempts
    /\ DOMAIN st.pool # {}

\* one iteration of the draw loop: the loop states random.choice can lead to
DrawStepByIdentity(st) ==
    {IF recipe \notin Range(st.selected)
     THEN [st EXCEPT !.selected = Append(@, recipe),
                     !.attempts = @ + 1,
                     !.pool = [r \in DOMAIN st.pool \ {recipe} |-> st.pool[r]]]
     ELSE [st EXCEPT !.attempts = @ + 1]
     : recipe \in DOMAIN st.pool}
DrawStep(st) ==
    {IF recipe.name \notin NamesOf(st.selected)
     THEN [st EXCEPT !.selected = Append(@, recipe),
                     !.attempts = @ + 1,
                     !.pool = Purge(st.pool, recipe.name)]
     ELSE [st EXCEPT !.attempts = @ + 1]
     : recipe \in DOMAIN st.pool}

\* the loop state before the first draw
DrawStart(pool) ==
    [pool |-> pool, selected |-> <<>>, attempts |-> 0,
     max_attempts |-> 2 * BagCardinality(pool)]

\* every list the draw loop can return from loop state st
RECURSIVE DrawLoop(_, _)
DrawLoop(st, num_recipes) ==
    IF ~DrawContinues(st, num_recipes) THEN {st.selected}
    ELSE UNION {DrawLoop(nxt, num_recipes) : nxt \in DrawStep(st)}

\* the branch taken when the weighted pool is empty
SelectorFallback(recipes, num_recipes, used) ==
    LET available == IF used # {} THEN FilterUnused(recipes, used) ELSE recipes
    IN  IF available = <<>> THEN {<<>>}
        ELSE Sample(available, Min(num_recipes, Len(available)))

\* what the selector does before the draw loop: "empty" (early return of
\* []), "raise", "fallback" (weighted pool empty) or "draw"
SelectorBranch(recipes, num_recipes, current_season, used) ==
    IF recipes = <<>> THEN "empty"
    ELSE IF num_recipes <= 0 THEN "empty"
    ELSE IF CategorizeRaises(recipes) THEN "raise"
    ELSE IF DOMAIN WeightedPool(recipes, current_season, used) = {} THEN "fallback"
    ELSE "draw"

\* select_recipes_with_seasonal_weights: the outcomes it can have, each
\* [raised |-> BOOLEAN, value |-> the returned list]
select_seasonal_recipes(recipes, num_recipes, current_season, used) ==
    LET branch == SelectorBranch(recipes, num_recipes, current_season, used)
        values ==
            CASE branch = "empty"    -> {<<>>}
              [] branch = "raise"    -> {}
              [] branch = "fallback" -> SelectorFallback(recipes, num_recipes, used)
              [] branch = "draw"     ->
                   DrawLoop(DrawStart(WeightedPool(recipes, current_season, used)),
                            num_recipes)
    IN  IF branch = "raise" THEN {[raised |-> TRUE, value |-> <<>>]}
        ELSE {[raised |-> FALSE, value |-> v] : v \in values}

(***************************************************************************)
(* data/google_drive_storage.py                                            *)
(*                                                                         *)
(* The user's Drive is a list of folders named folder_name, each trashed   *)
(* or not, and a list of files; a folder's or file's id is its position.   *)
(* An API call either answers or raises; `fault` names the call that       *)
(* raises during one storage operation and the class of the exception.     *)
(***************************************************************************)
recipes_file == "recipes.json"
weekly_recipes_file == "weekly_recipes.json"
meal_plans_file == "meal_plans.json"
DocumentNames == {recipes_file, weekly_recipes_file, meal_plans_file}

EmptyDrive == [folders |-> <<>>, files |-> <<>>]

NoFault == [at |-> "none", kind |-> "none"]
ApiCalls == {"list_folder", "create_folder", "list_file", "write_file",
             "download", "trash"}
\* HttpError from the API, OSError for transport failures, and a download
\* that is not JSON (JSONDecodeError) or not UTF-8 (UnicodeDecodeError)
Faults ==
    {NoFault}
    \cup [at : ApiCalls, kind : {"HttpError", "OSError"}]
    \cup [at : {"parse"}, kind : {"JSONDecodeError", "UnicodeDecodeError"}]

\* the except clauses that close every storage operation
StorageHandlersHttpOnly == {"HttpError", "JSONDecodeError"}
StorageHandlers == {"HttpError", "JSONDecodeError", "Exception"}

\* an except clause list catches an exception class (all model classes
\* derive from Exception)
Caught(kind, handlers) == kind \in handlers \/ "Exception" \in handlers

Return(d, value) == [drive |-> d, result |-> value, exc |-> "none"]
Raise(d, kind) == [drive |-> d, result |-> Absent, exc |-> kind]

\* try: body / except handlers: return on_error
TryExcept(body, handlers, on_error) ==
    IF body.exc = "none" THEN body
    ELSE IF Caught(body.exc, handlers) THEN Return(body.drive, on_error)
    ELSE body

\* files().list(q = name and folder mimeType and trashed=false)
LiveFolders(d) == {i \in DOMAIN d.folders : ~d.folders[i].trashed}
\* files().list(q = name and folder_id in parents and trashed=false)
LiveFiles(d, folder_id, name) ==
    {i \in DOMAIN d.files : d.files[i].name = name /\ d.files[i].parent = folder_id}
\* results.get('files')[0]: the first match of the listing
FirstMatch(S) == CHOOSE x \in S : \A y \in S : x <= y

\* get_or_create_app_folder
get_or_create_app_folder(d, service, fault) ==
    IF ~service THEN Return(d, NoId)
    ELSE TryExcept(
        IF fault.at = "list_folder" THEN Raise(d, fault.kind)
        ELSE IF LiveFolders(d) # {} THEN Return(d, FirstMatch(LiveFolders(d)))
        ELSE IF fault.at = "create_folder" THEN Raise(d, fault.kind)
        ELSE Return([d EXCEPT !.folders = Append(@, [trashed |-> FALSE])],
                    Len(d.folders) + 1),
        StorageHandlers, NoId)

\* the upsert at the end of every save: update the first match, else create
UpsertAlwaysCreate(d, folder_id, name, content) ==
    [d EXCEPT !.files = Append(@, [name |-> name, parent |-> folder_id,
                                   content |-> content])]
Upsert(d, folder_id, name, content) ==
    LET files == LiveFiles(d, folder_id, name)
    IN  IF files # {}
        THEN [d EXCEPT !.files[FirstMatch(files)].content = content]
        ELSE [d EXCEPT !.files = Append(@, [name |-> name, parent |-> folder_id,
                                            content |-> content])]

\* save_recipes / save_weekly_recipes / save_meal_plans (same body, the
\* document name differs)
SaveDocument(d, service, name, data, fault) ==
    IF ~service THEN Return(d, FALSE)
    ELSE LET folder == get_or_create_app_folder(d, service, fault)
             body ==
                IF folder.exc # "none" THEN folder
                ELSE IF folder.result = NoId THEN Return(folder.drive, FALSE)
                ELSE IF fault.at = "list_file" THEN Raise(folder.drive, fault.kind)
                ELSE IF fault.at = "write_file" THEN Raise(folder.drive, fault.kind)
                ELSE Return(Upsert(folder.drive, folder.result, name, data), TRUE)
         IN  TryExcept(body, StorageHandlers, FALSE)

save_recipes(d, service, data, fault) ==
    SaveDocument(d, service, recipes_file, data, fault)
save_weekly_recipes(d, service, data, fault) ==
    SaveDocument(d, service, weekly_recipes_file, data, fault)
save_meal_plans(d, service, data, fault) ==
    SaveDocument(d, service, meal_plans_file, data, fault)

\* the empty-shape defaults the loads return when the document is missing
DefaultRecipesDoc == [local_recipes |-> <<>>]
DefaultWeeklyDoc == [current_week |-> <<>>, weekly_plans |-> EmptyDict]
DefaultMealPlansDoc == [weekly_plans |-> EmptyDict]

\* load_recipes / load_weekly_recipes / load_meal_plans
LoadDocument(d, service, name, default, fault) ==
    IF ~service THEN Return(d, Absent)
    ELSE LET folder == get_or_create_app_folder(d, service, fault)
             files == LiveFiles(folder.drive, folder.result, name)
             body ==
                IF folder.exc # "none" THEN folder
                ELSE IF folder.result = NoId THEN Return(folder.drive, Absent)
                ELSE IF fault.at = "list_file" THEN Raise(folder.drive, fault.kind)
                ELSE IF files # {}
                     THEN IF fault.at \in {"download", "parse"}
                          THEN Raise(folder.drive, fault.kind)
                          ELSE Return(folder.drive,
                                      Some(folder.drive.files[FirstMatch(files)].content))
                     ELSE Return(folder.drive, Some(default))
         IN  TryExcept(body, StorageHandlers, Absent)

load_recipes(d, service, fault) ==
    LoadDocument(d, service, recipes_file, DefaultRecipesDoc, fault)
load_weekly_recipes(d, service, fault) ==
    LoadDocument(d, service, weekly_recipes_file, DefaultWeeklyDoc, fault)
load_meal_plans(d, service, fault) ==
    LoadDocument(d, service, meal_plans_file, DefaultMealPlansDoc, fault)

\* delete_all_data: move the app folder to the trash
delete_all_data(d, service, fault) ==
    IF ~service THEN Return(d, FALSE)
    ELSE TryExcept(
        IF fault.at = "list_folder" THEN Raise(d, fault.kind)
        ELSE IF LiveFolders(d) # {}
             THEN IF fault.at = "trash" THEN Raise(d, fault.kind)
                  ELSE Return([d EXCEPT !.folders[FirstMatch(LiveFolders(d))].trashed = TRUE],
                              TRUE)
             ELSE Return(d, TRUE),
        StorageHandlers, FALSE)

(***************************************************************************)
(* pages/this_week/week_utils.py                                           *)
(*                                                                         *)
(* A week is <<ISO year, ISO week>>; the storage key "{year}-W{week:02d}"  *)
(* is that pair written out.                                               *)
(***************************************************************************)
\* ISO weeks of the years the model visits (2026 is a 53-week year)
WeeksInYear(year) == IF year = 2026 THEN 53 ELSE 52

\* datetime.now() + timedelta(weeks = k), as an ISO (year, week)
RECURSIVE AddWeeks(_, _)
AddWeeks(week, k) ==
    IF k = 0 THEN week
    ELSE IF week[2] < WeeksInYear(week[1])
         THEN AddWeeks(<<week[1], week[2] + 1>>, k - 1)
         ELSE AddWeeks(<<week[1] + 1, 1>>, k - 1)

\* the week number is added without looking at the length of the year
AddWeeksSameYear(today, week_offset) == <<today[1], today[2] + week_offset>>

get_week_key(today, week_offset) == AddWeeks(today, week_offset)

\* the tabs of the weekly page: range(4)
WeekOffsets == 0..3

(***************************************************************************)
(* State                                                                   *)
(***************************************************************************)
VARIABLES
    default_recipes,            \* st.session_state.default_recipes
    default_recipes_loaded,     \* st.session_state.default_recipes_loaded
    local_recipes,              \* st.session_state.local_recipes
    weekly_recipes,             \* st.session_state.weekly_recipes
    weekly_plans,               \* st.session_state.weekly_plans: week key -> list
    meals_per_week,             \* st.session_state.meals_per_week
    recipes_loaded_from_drive,  \* st.session_state.recipes_loaded_from_drive
    drive_token,                \* the Drive OAuth token is in the session
    now,                        \* ISO week of datetime.now()
    current_season,             \* get_current_season()
    drive,                      \* the user's Google Drive
    last,                       \* what the last handler did
    drive_loads,                \* runs of load_recipes_from_drive against Drive
    steps,                      \* handlers run so far
    sel,                        \* a selector call in progress
    call,                       \* the last direct storage call
    settings_call,              \* the last call of a settings utility
    selected_recipe_idx,        \* st.session_state.selected_recipe_idx
    selected_recipe_name,       \* st.session_state.selected_recipe_name
    view_call,                  \* the last operation of the recipe viewer
    search,                     \* st.session_state.search (browse page)
    categories,                 \* st.session_state.categories
    source,                     \* st.session_state.source
    current_page,               \* st.session_state.current_page
    browse_call,                \* the last run of the browse page
    client,                     \* an AnyListOfficialClient object
    client_call,                \* the last operation on the client
    bridge_out,                 \* what the bridge subprocess is about to answer
    creds_file,                 \* src/data/anylist_creds.json
    key_file,                   \* src/data/.encryption_key
    cipher,                     \* CredentialManager.cipher of the session
    cred_call,                  \* the last operation on the credential manager
    recipe_obj,                 \* a Recipe object
    recipe_call,                \* the last operation on the Recipe
    model_call,                 \* the last construction or conversion of a model object
    image_call,                 \* the last download of a hero image
    race                        \* two sessions of one user inside storage calls

vars == <<default_recipes, default_recipes_loaded, local_recipes, weekly_recipes,
          weekly_plans, meals_per_week, recipes_loaded_from_drive, drive_token,
          now, current_season, drive, last, drive_loads, steps, sel, call,
          settings_call, selected_recipe_idx, selected_recipe_name, view_call,
          search, categories, source, current_page, browse_call,
          client, client_call, bridge_out,
          creds_file, key_file, cipher, cred_call, recipe_obj, recipe_call,
          model_call, image_call, race>>

session_vars == <<default_recipes, default_recipes_loaded, local_recipes,
                  weekly_recipes, weekly_plans, meals_per_week,
                  recipes_loaded_from_drive, drive_token, now, current_season,
                  last, drive_loads>>

\* the state of the components that have a specification of their own
settings_vars == <<settings_call>>
viewer_vars == <<selected_recipe_idx, selected_recipe_name, view_call>>
browse_vars == <<search, categories, source, current_page, browse_call>>
client_vars == <<client, client_call, bridge_out>>
cred_vars == <<creds_file, key_file, cipher, cred_call>>
recipe_vars == <<recipe_obj, recipe_call>>
other_vars == <<model_call, image_call, race>>
component_vars == <<settings_vars, viewer_vars, browse_vars, client_vars,
                    cred_vars, recipe_vars,
        other_vars>>

NoSettingsCall ==
    [op |-> "none", token |-> FALSE, ret |-> FALSE, exc |-> "none",
     requested |-> Absent, later |-> FALSE]

SettingsIdle == settings_call = NoSettingsCall

NoViewCall ==
    [op |-> "none", name |-> "", had_marker |-> FALSE, idx_before |-> Absent,
     recipes |-> <<>>, ret |-> "None", returned |-> Absent, pre_weekly |-> <<>>,
     recipe |-> Absent]

ViewerIdle ==
    /\ selected_recipe_idx = Absent
    /\ selected_recipe_name = Absent
    /\ view_call = NoViewCall

NoBrowseCall ==
    [op |-> "none", page_before |-> 0, changed |-> FALSE, pending |-> FALSE,
     sliced |-> FALSE,
     page_at_slice |-> 0, start_idx |-> 0, end_idx |-> 0, total |-> 0,
     previous_shown |-> FALSE, next_shown |-> FALSE]

BrowseIdle ==
    /\ search = <<>>
    /\ categories = {}
    /\ source = "All"
    /\ current_page = 0
    /\ browse_call = NoBrowseCall

\* no client object yet; None and "" are both "" here, as the code only
\* tests the credentials for truth
NoClient ==
    [constructed |-> FALSE, email |-> "", password |-> "", logged_in |-> FALSE,
     nodejs_available |-> FALSE, node |-> "none"]

NoBridgeResult == [success |-> FALSE, error |-> "", tag |-> 0]

NoClientCall ==
    [op |-> "none", ret |-> "None", raised |-> FALSE, spawned |-> 0,
     bridge_called |-> FALSE, result |-> NoBridgeResult, pre |-> NoClient]

NoBridgeOut == [raises |-> FALSE, stdout |-> <<>>, stderr |-> <<>>]

ClientIdle ==
    /\ client = NoClient
    /\ client_call = NoClientCall
    /\ bridge_out = NoBridgeOut

\* application user names
Users == {"u1", "u2"}

NoCredCall ==
    [op |-> "none", username |-> "", ret |-> "None", returned |-> Absent,
     saved |-> [u \in Users |-> Absent]]

\* a fresh installation: neither file exists, no manager has been made
CredIdle ==
    /\ creds_file = Absent
    /\ key_file = Absent
    /\ cipher = Absent
    /\ cred_call = NoCredCall

\* Recipe(recipe_id, name_no): nothing in it yet, version 1
NewRecipe(id) ==
    [id |-> id, version |-> 1, recipe_ingredients |-> <<>>,
     preparation_steps |-> <<>>, produces_ingredient |-> FALSE,
     produced_ingredient_id |-> "", yield_amount |-> 0, yield_unit |-> ""]

NoRecipeCall == [op |-> "none", ret |-> "None", pre |-> NewRecipe("r1")]

RecipeIdle ==
    /\ recipe_obj = NewRecipe("r1")
    /\ recipe_call = NoRecipeCall

NoModelCall == [op |-> "none"]
NoImageCall == [op |-> "none"]
NoRace == [op |-> "none"]

OtherIdle ==
    /\ model_call = NoModelCall
    /\ image_call = NoImageCall
    /\ race = NoRace

\* no component has been used
ComponentsIdle ==
    /\ SettingsIdle
    /\ ViewerIdle
    /\ BrowseIdle
    /\ ClientIdle
    /\ CredIdle
    /\ RecipeIdle
    /\ OtherIdle


(***************************************************************************)
(* dict helpers                                                            *)
(***************************************************************************)
DictGet(d, k, default) == IF k \in DOMAIN d THEN d[k] ELSE default
DictSet(d, k, v) == [x \in DOMAIN d \cup {k} |-> IF x = k THEN v ELSE d[x]]

(***************************************************************************)
(* pages/browse_recipes/session_state.py                                   *)
(***************************************************************************)
\* get_all_recipes: default recipes first, then local recipes
get_all_recipes(defaults, locals) == defaults \o locals

\* get_google_drive_storage: a storage object exists when the session holds
\* a Drive token (the pages run behind the login check)
get_google_drive_storage(token) == token

\* the guard of the one-time load in initialize_session_state
ShouldLoadAlways(loaded_flag) == TRUE
ShouldLoadFromDrive(loaded_flag) == ~loaded_flag

\* load_recipes_from_drive: the three loads and what they overwrite
load_recipes_from_drive(locals, plans, weekly, flag, token, d, fault) ==
    IF ~get_google_drive_storage(token)
    THEN [local_recipes |-> locals, weekly_plans |-> plans, weekly_recipes |-> weekly,
          flag |-> flag, drive |-> d, attempted |-> FALSE]
    ELSE LET r1 == load_recipes(d, TRUE, fault)
             r2 == load_meal_plans(r1.drive, TRUE, fault)
             r3 == load_weekly_recipes(r2.drive, TRUE, fault)
             raised == r1.exc # "none" \/ r2.exc # "none" \/ r3.exc # "none"
         IN  [local_recipes |->
                 IF r1.exc = "none" /\ r1.result.present
                 THEN r1.result.data.local_recipes ELSE locals,
              weekly_plans |->
                 IF r1.exc = "none" /\ r2.exc = "none" /\ r2.result.present
                 THEN r2.result.data.weekly_plans ELSE plans,
              weekly_recipes |->
                 IF ~raised /\ r3.result.present
                 THEN r3.result.data.current_week ELSE weekly,
              flag |-> IF raised THEN flag ELSE TRUE,
              drive |-> IF r1.exc # "none" THEN r1.drive
                        ELSE IF r2.exc # "none" THEN r2.drive ELSE r3.drive,
              attempted |-> TRUE]

\* the document save_recipes_to_drive uploads
RecipesPayload(locals) == [local_recipes |-> locals]

(***************************************************************************)
(* pages/this_week/session_manager.py                                      *)
(***************************************************************************)
\* get_recipes_for_week
get_recipes_for_week(plans, today, week_offset) ==
    DictGet(plans, get_week_key(today, week_offset), <<>>)

\* the document save_to_drive uploads
WeeklyPayloadCurrentOnly(weekly, plans) ==
    [current_week |-> weekly, weekly_plans |-> EmptyDict]
WeeklyPayload(weekly, plans) ==
    [current_week |-> weekly, weekly_plans |-> plans]

\* save_to_drive: returns True/False, or None when there is no storage
save_to_drive(weekly, plans, token, d, fault) ==
    IF ~get_google_drive_storage(token)
    THEN [drive |-> d, ret |-> "None", payload |-> Absent]
    ELSE LET r == save_weekly_recipes(d, TRUE, WeeklyPayload(weekly, plans), fault)
         IN  [drive |-> r.drive,
              ret |-> IF r.exc = "none" /\ r.result THEN "True" ELSE "False",
              payload |-> Some(WeeklyPayload(weekly, plans))]

\* the early return of populate_week_with_random_recipes
PopulateSkipsNever(force, week) == FALSE
PopulateSkips(force, week) == ~force /\ Len(week) > 0

\* num_recipes_to_add
NumRecipesToAdd(meals, all_recipes) == Min(meals, Len(all_recipes))

\* used_recipe_names: the names in the other weeks of range(4)
UsedRecipeNames(plans, today, week_offset) ==
    UNION {NamesOf(get_recipes_for_week(plans, today, other_week)) :
              other_week \in WeekOffsets \ {week_offset}}

\* the except branch: random selection preferring unused recipes
FallbackSelection(all_recipes, num, used) ==
    LET unused_recipes == FilterUnused(all_recipes, used)
    IN  IF Len(unused_recipes) >= num THEN Sample(unused_recipes, num)
        ELSE IF Len(unused_recipes) > 0
        THEN {unused_recipes \o rest :
                 rest \in Sample(all_recipes, num - Len(unused_recipes))}
        ELSE Sample(all_recipes, num)

\* what the selection part of populate can produce: ok = FALSE is the
\* `return False` on an empty selection
PopulateOutcomes(all_recipes, num, season, used) ==
    UNION {
        IF out.raised
        THEN {[ok |-> TRUE, selected |-> chosen, selector |-> "raised",
               path |-> "fallback"] : chosen \in FallbackSelection(all_recipes, num, used)}
        ELSE IF out.value = <<>>
        THEN {[ok |-> FALSE, selected |-> <<>>, selector |-> "empty", path |-> "none"]}
        ELSE {[ok |-> TRUE, selected |-> out.value, selector |-> "chosen",
               path |-> "seasonal"]}
        : out \in select_seasonal_recipes(all_recipes, num, season, used)}

(***************************************************************************)
(* Handlers of one session                                                 *)
(***************************************************************************)
\* the bundled default recipes an installation can ship
DefaultPools ==
    {<<RecipeWinter>>,
     <<RecipeWinter, RecipePlain, RecipeTwin>>,
     <<RecipePlain, RecipeBroken>>}

\* what the network does to the storage calls of one handler
SessionFaults == {NoFault, [at |-> "list_folder", kind |-> "HttpError"]}

\* a Drive left behind by an earlier session of the same user
UsedDrive ==
    [folders |-> <<[trashed |-> FALSE]>>,
     files |-> <<[name |-> recipes_file, parent |-> 1,
                  content |-> [local_recipes |-> <<RecipePlain>>]],
                 [name |-> weekly_recipes_file, parent |-> 1,
                  content |-> [current_week |-> <<RecipeWinter>>,
                               weekly_plans |-> EmptyDict]]>>]

NoLast ==
    [op |-> "none", offset |-> 0, index |-> 0, force |-> FALSE, ret |-> "None",
     pre_plans |-> EmptyDict, pre_weekly |-> <<>>, pre_locals |-> <<>>,
     flag_before |-> FALSE, token |-> FALSE,
     save_called |-> FALSE, payload |-> Absent, loaded |-> FALSE,
     skipped |-> FALSE, selector |-> "none", path |-> "none",
     selected |-> <<>>, all_recipes |-> <<>>, num |-> 0, used |-> {}]

\* the record of a handler that starts in the current state
Begin(op) ==
    [NoLast EXCEPT !.op = op, !.pre_plans = weekly_plans,
                   !.pre_weekly = weekly_recipes, !.pre_locals = local_recipes,
                   !.flag_before = recipes_loaded_from_drive,
                   !.token = drive_token]

NoSel == [pc |-> "idle"]
NoCall == [op |-> "none"]

\* A session as its first page render leaves it: initialize_session_state
\* has loaded the bundled recipes, and no Drive token can be in the session
\* yet, so nothing was loaded from Drive.
Init ==
    /\ default_recipes \in DefaultPools
    /\ default_recipes_loaded = TRUE
    /\ local_recipes = <<>>
    /\ weekly_recipes = <<>>
    /\ weekly_plans = EmptyDict
    /\ meals_per_week = 3
    /\ recipes_loaded_from_drive = FALSE
    /\ drive_token = FALSE
    /\ now = <<2026, 51>>
    /\ current_season = "Host"
    \* the account has been used before; ClearDriveData empties it
    /\ drive = UsedDrive
    /\ last = NoLast
    /\ drive_loads = 0
    /\ steps = 0
    /\ sel = NoSel
    /\ call = NoCall
    /\ ComponentsIdle

Tick ==
    /\ steps < MaxSteps
    /\ steps' = steps + 1
    /\ UNCHANGED <<sel, call, now, current_season, component_vars>>

\* initialize_session_state, run at the top of every page
InitializeSessionState ==
    /\ Tick
    /\ \E pool \in DefaultPools, fault \in SessionFaults :
        LET r == load_recipes_from_drive(local_recipes, weekly_plans, weekly_recipes,
                                         recipes_loaded_from_drive, drive_token,
                                         drive, fault)
            do_load == ShouldLoadFromDrive(recipes_loaded_from_drive)
        IN  /\ default_recipes' = IF default_recipes_loaded THEN default_recipes ELSE pool
            /\ default_recipes_loaded' = TRUE
            /\ local_recipes' = IF do_load THEN r.local_recipes ELSE local_recipes
            /\ weekly_plans' = IF do_load THEN r.weekly_plans ELSE weekly_plans
            /\ weekly_recipes' = IF do_load THEN r.weekly_recipes ELSE weekly_recipes
            /\ recipes_loaded_from_drive' =
                 IF do_load THEN r.flag ELSE recipes_loaded_from_drive
            /\ drive' = IF do_load THEN r.drive ELSE drive
            /\ drive_loads' = IF do_load /\ r.attempted THEN drive_loads + 1
                              ELSE drive_loads
            /\ last' = [Begin("initialize_session_state") EXCEPT
                           !.loaded = do_load /\ r.attempted]
    /\ UNCHANGED <<meals_per_week, drive_token>>

\* the authorize button of show_google_drive_auth stores a token
ConnectDrive ==
    /\ Tick
    /\ ~drive_token
    /\ drive_token' = TRUE
    /\ last' = Begin("connect")
    /\ UNCHANGED <<default_recipes, default_recipes_loaded, local_recipes,
                   weekly_recipes, weekly_plans, meals_per_week,
                   recipes_loaded_from_drive, drive, drive_loads>>

\* "Disconnect Google Drive": clear_token
DisconnectDrive ==
    /\ Tick
    /\ drive_token
    /\ drive_token' = FALSE
    /\ last' = Begin("disconnect")
    /\ UNCHANGED <<default_recipes, default_recipes_loaded, local_recipes,
                   weekly_recipes, weekly_plans, meals_per_week,
                   recipes_loaded_from_drive, drive, drive_loads>>

\* the meals-per-week slider of the profile page
SetMealsPerWeek(m) ==
    /\ Tick
    /\ m # meals_per_week
    /\ meals_per_week' = m
    /\ last' = Begin("set_meals_per_week")
    /\ UNCHANGED <<default_recipes, default_recipes_loaded, local_recipes,
                   weekly_recipes, weekly_plans, drive_token,
                   recipes_loaded_from_drive, drive, drive_loads>>

\* "Load from Drive" on the settings page
LoadFromDriveButton ==
    /\ Tick
    /\ get_google_drive_storage(drive_token)
    /\ \E fault \in SessionFaults :
        LET r == load_recipes_from_drive(local_recipes, weekly_plans, weekly_recipes,
                                         recipes_loaded_from_drive, drive_token,
                                         drive, fault)
        IN  /\ local_recipes' = r.local_recipes
            /\ weekly_plans' = r.weekly_plans
            /\ weekly_recipes' = r.weekly_recipes
            /\ recipes_loaded_from_drive' = r.flag
            /\ drive' = r.drive
            /\ drive_loads' = drive_loads + 1
            /\ last' = [Begin("load_button") EXCEPT !.loaded = TRUE]
    /\ UNCHANGED <<default_recipes, default_recipes_loaded, meals_per_week, drive_token>>

\* "Save to Drive" on the settings page: save_recipes_to_drive, then
\* WeeklyRecipeManager.save_to_drive
SaveToDriveButton ==
    /\ Tick
    /\ get_google_drive_storage(drive_token)
    /\ \E fault \in SessionFaults :
        LET r1 == save_recipes(drive, TRUE, RecipesPayload(local_recipes), fault)
            sv == save_to_drive(weekly_recipes, weekly_plans, drive_token,
                                r1.drive, fault)
        IN  /\ drive' = sv.drive
            /\ last' = [Begin("save_button") EXCEPT
                           !.save_called = TRUE, !.payload = sv.payload,
                           !.ret = sv.ret]
    /\ UNCHANGED <<default_recipes, default_recipes_loaded, local_recipes,
                   weekly_recipes, weekly_plans, meals_per_week, drive_token,
                   recipes_loaded_from_drive, drive_loads>>

\* "Clear Drive Data" with the confirmation ticked
ClearDriveData ==
    /\ Tick
    /\ get_google_drive_storage(drive_token)
    /\ \E fault \in SessionFaults :
        LET r == delete_all_data(drive, TRUE, fault)
            deleted == r.exc = "none" /\ r.result
        IN  /\ drive' = r.drive
            /\ recipes_loaded_from_drive' =
                 IF deleted THEN FALSE ELSE recipes_loaded_from_drive
            /\ last' = [Begin("clear_drive_data") EXCEPT
                           !.ret = IF deleted THEN "True" ELSE "False"]
    /\ UNCHANGED <<default_recipes, default_recipes_loaded, local_recipes,
                   weekly_recipes, weekly_plans, meals_per_week, drive_token,
                   drive_loads>>

(***************************************************************************)
(* WeeklyRecipeManager handlers (run from a page, after its initialization)*)
(***************************************************************************)
FrameManager == <<default_recipes, default_recipes_loaded, local_recipes,
                   meals_per_week, drive_token, recipes_loaded_from_drive,
                   drive_loads>>

\* add_recipe: append to the current-week list, then save
add_recipe(recipe) ==
    /\ Tick
    /\ default_recipes_loaded
    /\ Len(weekly_recipes) < MaxWeekLen
    /\ \E fault \in SessionFaults :
        LET weekly2 == Append(weekly_recipes, recipe)
            sv == save_to_drive(weekly2, weekly_plans, drive_token, drive, fault)
        IN  /\ weekly_recipes' = weekly2
            /\ drive' = sv.drive
            /\ last' = [Begin("add_recipe") EXCEPT
                           !.save_called = TRUE, !.payload = sv.payload]
    /\ UNCHANGED <<weekly_plans, FrameManager>>

\* remove_recipe: pop the index when it is in range, then save
remove_recipe(index) ==
    /\ Tick
    /\ default_recipes_loaded
    /\ \E fault \in SessionFaults :
        IF 0 <= index /\ index < Len(weekly_recipes)
        THEN LET weekly2 == RemoveAt(weekly_recipes, index + 1)
                 sv == save_to_drive(weekly2, weekly_plans, drive_token, drive, fault)
             IN  /\ weekly_recipes' = weekly2
                 /\ drive' = sv.drive
                 /\ last' = [Begin("remove_recipe") EXCEPT
                                !.index = index,
                                !.save_called = TRUE, !.payload = sv.payload]
        ELSE /\ UNCHANGED <<weekly_recipes, drive>>
             /\ last' = [Begin("remove_recipe") EXCEPT !.index = index]
    /\ UNCHANGED <<weekly_plans, FrameManager>>

\* clear_all: empty the current-week list, then save
clear_all ==
    /\ Tick
    /\ default_recipes_loaded
    /\ \E fault \in SessionFaults :
        LET sv == save_to_drive(<<>>, weekly_plans, drive_token, drive, fault)
        IN  /\ weekly_recipes' = <<>>
            /\ drive' = sv.drive
            /\ last' = [Begin("clear_all") EXCEPT
                           !.save_called = TRUE, !.payload = sv.payload]
    /\ UNCHANGED <<weekly_plans, FrameManager>>

\* st.session_state[WEEKLY_PLANS_KEY][week_key] = recipes: the assignment
\* every per-week operation ends in; one key of the dictionary is written
SetWeekOnly(plans, week_key, recipes) == [x \in {week_key} |-> recipes]
SetWeek(plans, week_key, recipes) == DictSet(plans, week_key, recipes)

\* add_recipe_to_week
add_recipe_to_week(recipe, week_offset) ==
    /\ Tick
    /\ default_recipes_loaded
    /\ Len(get_recipes_for_week(weekly_plans, now, week_offset)) < MaxWeekLen
    /\ \E fault \in SessionFaults :
        LET week_key == get_week_key(now, week_offset)
            plans2 == SetWeek(weekly_plans, week_key,
                              Append(DictGet(weekly_plans, week_key, <<>>), recipe))
            sv == save_to_drive(weekly_recipes, plans2, drive_token, drive, fault)
        IN  /\ weekly_plans' = plans2
            /\ drive' = sv.drive
            /\ last' = [Begin("add_recipe_to_week") EXCEPT
                           !.offset = week_offset,
                           !.save_called = TRUE, !.payload = sv.payload]
    /\ UNCHANGED <<weekly_recipes, FrameManager>>

\* remove_recipe_from_week
remove_recipe_from_week(recipe_index, week_offset) ==
    /\ Tick
    /\ default_recipes_loaded
    /\ \E fault \in SessionFaults :
        LET week_key == get_week_key(now, week_offset)
            recipes == DictGet(weekly_plans, week_key, <<>>)
        IN  IF /\ week_key \in DOMAIN weekly_plans
               /\ 0 <= recipe_index
               /\ recipe_index < Len(recipes)
            THEN LET plans2 == SetWeek(weekly_plans, week_key,
                                       RemoveAt(recipes, recipe_index + 1))
                     sv == save_to_drive(weekly_recipes, plans2, drive_token,
                                         drive, fault)
                 IN  /\ weekly_plans' = plans2
                     /\ drive' = sv.drive
                     /\ last' = [Begin("remove_recipe_from_week") EXCEPT
                                    !.offset = week_offset, !.index = recipe_index,
                                    !.save_called = TRUE, !.payload = sv.payload]
            ELSE /\ UNCHANGED <<weekly_plans, drive>>
                 /\ last' = [Begin("remove_recipe_from_week") EXCEPT
                                !.offset = week_offset, !.index = recipe_index]
    /\ UNCHANGED <<weekly_recipes, FrameManager>>

\* clear_week
clear_week(week_offset) ==
    /\ Tick
    /\ default_recipes_loaded
    /\ \E fault \in SessionFaults :
        LET plans2 == SetWeek(weekly_plans, get_week_key(now, week_offset), <<>>)
            sv == save_to_drive(weekly_recipes, plans2, drive_token, drive, fault)
        IN  /\ weekly_plans' = plans2
            /\ drive' = sv.drive
            /\ last' = [Begin("clear_week") EXCEPT
                           !.offset = week_offset,
                           !.save_called = TRUE, !.payload = sv.payload]
    /\ UNCHANGED <<weekly_recipes, FrameManager>>

\* populate_week_with_random_recipes
populate_week_with_random_recipes(week_offset, force) ==
    /\ Tick
    /\ default_recipes_loaded
    /\ LET all_recipes == get_all_recipes(default_recipes, local_recipes)
           num == NumRecipesToAdd(meals_per_week, all_recipes)
           used == UsedRecipeNames(weekly_plans, now, week_offset)
           begin == [Begin("populate") EXCEPT
                        !.offset = week_offset, !.force = force,
                        !.all_recipes = all_recipes]
       IN  IF PopulateSkips(force, get_recipes_for_week(weekly_plans, now, week_offset))
           THEN /\ UNCHANGED <<weekly_plans, drive>>
                /\ last' = [begin EXCEPT !.ret = "False", !.skipped = TRUE]
           ELSE IF all_recipes = <<>>
           THEN /\ UNCHANGED <<weekly_plans, drive>>
                /\ last' = [begin EXCEPT !.ret = "False"]
           ELSE \E out \in PopulateOutcomes(all_recipes, num, current_season, used),
                   fault \in SessionFaults :
                    LET done == [begin EXCEPT !.num = num, !.used = used,
                                              !.selector = out.selector,
                                              !.path = out.path,
                                              !.selected = out.selected]
                    IN  IF ~out.ok
                        THEN /\ UNCHANGED <<weekly_plans, drive>>
                             /\ last' = [done EXCEPT !.ret = "False"]
                        ELSE LET plans2 == SetWeek(weekly_plans,
                                                   get_week_key(now, week_offset),
                                                   out.selected)
                                 sv == save_to_drive(weekly_recipes, plans2,
                                                     drive_token, drive, fault)
                             IN  /\ weekly_plans' = plans2
                                 /\ drive' = sv.drive
                                 /\ last' = [done EXCEPT
                                                !.ret = "True",
                                                !.save_called = TRUE,
                                                !.payload = sv.payload]
    /\ UNCHANGED <<weekly_recipes, FrameManager>>

Next ==
    \/ InitializeSessionState
    \/ ConnectDrive
    \/ DisconnectDrive
    \/ \E m \in 1..MaxMeals : SetMealsPerWeek(m)
    \/ LoadFromDriveButton
    \/ SaveToDriveButton
    \/ ClearDriveData
    \/ \E r \in Range(get_all_recipes(default_recipes, local_recipes)) : add_recipe(r)
    \/ \E i \in 0..MaxWeekLen : remove_recipe(i)
    \/ clear_all
    \/ \E r \in Range(get_all_recipes(default_recipes, local_recipes)),
          o \in WeekOffsets : add_recipe_to_week(r, o)
    \/ \E i \in 0..MaxWeekLen, o \in WeekOffsets : remove_recipe_from_week(i, o)
    \/ \E o \in WeekOffsets : clear_week(o)
    \/ \E o \in WeekOffsets, force \in BOOLEAN : populate_week_with_random_recipes(o, force)

Spec == Init /\ [][Next]_vars

(***************************************************************************)
(* The selector on its own: any recipe list, count, season and exclusion   *)
(* set, with the draw loop taken one iteration at a time.                  *)
(***************************************************************************)
\* the session, untouched while the selector or the storage runs alone
SessionIdle ==
    /\ default_recipes = <<>>
    /\ default_recipes_loaded = FALSE
    /\ local_recipes = <<>>
    /\ weekly_recipes = <<>>
    /\ weekly_plans = EmptyDict
    /\ meals_per_week = 3
    /\ recipes_loaded_from_drive = FALSE
    /\ drive_token = FALSE
    /\ now = <<2026, 51>>
    /\ current_season = "Host"
    /\ last = NoLast
    /\ drive_loads = 0
    /\ steps = 0
    /\ ComponentsIdle

SelCall(recipes, num_recipes, season, used) ==
    [pc |-> "call", recipes |-> recipes, num |-> num_recipes, season |-> season,
     used |-> used, st |-> DrawStart(EmptyBag), result |-> <<>>, raised |-> FALSE]

InitSel ==
    /\ SessionIdle
    /\ drive = EmptyDrive
    /\ call = NoCall
    /\ sel \in {SelCall(recipes, num_recipes, season, used) :
                  recipes \in SeqsUpTo(Catalogue, MaxSelLen),
                  num_recipes \in 0..MaxSelNum,
                  season \in Seasons,
                  used \in SUBSET RecipeNames}

\* everything before the draw loop
SelEnter ==
    /\ sel.pc = "call"
    /\ LET branch == SelectorBranch(sel.recipes, sel.num, sel.season, sel.used)
       IN  CASE branch = "empty" ->
                  sel' = [sel EXCEPT !.pc = "done"]
             [] branch = "raise" ->
                  sel' = [sel EXCEPT !.pc = "done", !.raised = TRUE]
             [] branch = "fallback" ->
                  \E v \in SelectorFallback(sel.recipes, sel.num, sel.used) :
                      sel' = [sel EXCEPT !.pc = "done", !.result = v]
             [] branch = "draw" ->
                  sel' = [sel EXCEPT
                             !.pc = "loop",
                             !.st = DrawStart(WeightedPool(sel.recipes, sel.season,
                                                           sel.used))]
    /\ UNCHANGED <<session_vars, drive, steps, call, component_vars>>

\* one iteration of the draw loop
SelDraw ==
    /\ sel.pc = "loop"
    /\ DrawContinues(sel.st, sel.num)
    /\ \E nxt \in DrawStep(sel.st) : sel' = [sel EXCEPT !.st = nxt]
    /\ UNCHANGED <<session_vars, drive, steps, call, component_vars>>

\* return selected
SelReturn ==
    /\ sel.pc = "loop"
    /\ ~DrawContinues(sel.st, sel.num)
    /\ sel' = [sel EXCEPT !.pc = "done", !.result = sel.st.selected]
    /\ UNCHANGED <<session_vars, drive, steps, call, component_vars>>

NextSel == SelEnter \/ SelDraw \/ SelReturn

SpecSel == InitSel /\ [][NextSel]_vars

(***************************************************************************)
(* The storage layer on its own: any sequence of storage calls of one      *)
(* session against one Drive, each with any fault.                         *)
(***************************************************************************)
\* documents a session can upload under each name
DrivePayloads(name) ==
    IF name = recipes_file
    THEN {[local_recipes |-> <<>>], [local_recipes |-> <<RecipePlain>>]}
    ELSE IF name = weekly_recipes_file
    THEN {[current_week |-> <<>>, weekly_plans |-> EmptyDict],
          [current_week |-> <<RecipeWinter>>, weekly_plans |-> EmptyDict]}
    ELSE {[weekly_plans |-> EmptyDict],
          [weekly_plans |-> DictSet(EmptyDict, <<2026, 51>>, <<RecipeTwin>>)]}

DefaultDoc(name) ==
    IF name = recipes_file THEN DefaultRecipesDoc
    ELSE IF name = weekly_recipes_file THEN DefaultWeeklyDoc
    ELSE DefaultMealPlansDoc

NothingSaved == [n \in DocumentNames |-> Absent]

\* the record of one storage call: `pre` is the Drive it started from and
\* `saved` the content of the last successful save of each document since
\* the app folder was last trashed
DriveCall(op, name, service, fault, outcome, saved) ==
    [op |-> op, name |-> name, service |-> service, fault |-> fault,
     pre |-> drive, exc |-> outcome.exc, result |-> outcome.result,
     saved |-> saved]

InitDrive ==
    /\ SessionIdle
    /\ sel = NoSel
    /\ drive = EmptyDrive
    /\ call = [op |-> "none", saved |-> NothingSaved]

DriveTick ==
    /\ steps < MaxDriveOps
    /\ steps' = steps + 1
    /\ UNCHANGED <<sel, component_vars>>
DriveFrame == <<default_recipes, default_recipes_loaded, local_recipes,
                weekly_recipes, weekly_plans, meals_per_week,
                recipes_loaded_from_drive, drive_token, now, current_season,
                last, drive_loads>>

DriveGetFolder ==
    /\ DriveTick
    /\ \E service \in BOOLEAN, fault \in Faults :
        LET r == get_or_create_app_folder(drive, service, fault)
        IN  /\ drive' = r.drive
            /\ call' = DriveCall("folder", "", service, fault, r, call.saved)
    /\ UNCHANGED DriveFrame

DriveSave ==
    /\ DriveTick
    /\ \E name \in DocumentNames, service \in BOOLEAN, fault \in Faults :
        \E data \in DrivePayloads(name) :
            LET r == CASE name = recipes_file -> save_recipes(drive, service, data, fault)
                       [] name = weekly_recipes_file ->
                            save_weekly_recipes(drive, service, data, fault)
                       [] name = meal_plans_file ->
                            save_meal_plans(drive, service, data, fault)
            IN  /\ drive' = r.drive
                /\ call' = DriveCall("save", name, service, fault, r,
                                     IF r.exc = "none" /\ r.result
                                     THEN [call.saved EXCEPT ![name] = Some(data)]
                                     ELSE call.saved)
    /\ UNCHANGED DriveFrame

DriveLoad ==
    /\ DriveTick
    /\ \E name \in DocumentNames, service \in BOOLEAN, fault \in Faults :
        LET r == CASE name = recipes_file -> load_recipes(drive, service, fault)
                   [] name = weekly_recipes_file ->
                        load_weekly_recipes(drive, service, fault)
                   [] name = meal_plans_file -> load_meal_plans(drive, service, fault)
        IN  /\ drive' = r.drive
            /\ call' = DriveCall("load", name, service, fault, r, call.saved)
    /\ UNCHANGED DriveFrame

DriveDeleteAll ==
    /\ DriveTick
    /\ \E service \in BOOLEAN, fault \in Faults :
        LET r == delete_all_data(drive, service, fault)
        IN  /\ drive' = r.drive
            /\ call' = DriveCall("delete", "", service, fault, r,
                                 IF r.exc = "none" /\ r.result
                                 THEN NothingSaved ELSE call.saved)
    /\ UNCHANGED DriveFrame

NextDrive == DriveGetFolder \/ DriveSave \/ DriveLoad \/ DriveDeleteAll

SpecDrive == InitDrive /\ [][NextDrive]_vars

(***************************************************************************)
(* The user settings utilities, followed from one session to the next      *)
(***************************************************************************)
\* the methods class GoogleDriveRecipeStorage defines
StorageMethods ==
    {"get_or_create_app_folder", "save_recipes", "load_recipes",
     "save_weekly_recipes", "load_weekly_recipes", "save_meal_plans",
     "load_meal_plans", "delete_all_data"}

\* looking a method up on a storage instance
StorageAttribute(name) ==
    IF name \in StorageMethods THEN "method" ELSE "AttributeError"

\* values of the meals-per-week slider
SliderValues == 1..7

meals_per_week_default == 3

\* save_user_settings_to_drive: without storage it returns False; with
\* storage the lookup of save_user_settings raises AttributeError before
\* anything is sent, and the except clause turns that into False
save_user_settings_to_drive(token, meals) ==
    IF ~get_google_drive_storage(token)
    THEN [ret |-> FALSE, exc |-> "none", sent |-> Absent]
    ELSE LET attr == StorageAttribute("save_user_settings")
         IN  [ret |-> FALSE, exc |-> attr, sent |-> Absent]

\* load_user_settings_from_drive: the same with load_user_settings, so the
\* session's meals_per_week is never assigned
load_user_settings_from_drive(token, meals) ==
    IF ~get_google_drive_storage(token)
    THEN [ret |-> FALSE, exc |-> "none", meals_per_week |-> meals]
    ELSE LET attr == StorageAttribute("load_user_settings")
         IN  [ret |-> FALSE, exc |-> attr, meals_per_week |-> meals]

\* initialize_user_settings: the default when the key is missing, then the load
initialize_user_settings(token, meals) ==
    load_user_settings_from_drive(
        token, IF meals.present THEN meals.data ELSE meals_per_week_default)

SettingsFrame == <<default_recipes, default_recipes_loaded, local_recipes,
                   weekly_recipes, weekly_plans, recipes_loaded_from_drive,
                   now, current_season, drive, last, drive_loads, sel, call,
                   viewer_vars, browse_vars, client_vars, cred_vars,
                   recipe_vars,
        other_vars>>

InitSettings ==
    /\ default_recipes = <<>>
    /\ default_recipes_loaded = FALSE
    /\ local_recipes = <<>>
    /\ weekly_recipes = <<>>
    /\ weekly_plans = EmptyDict
    /\ recipes_loaded_from_drive = FALSE
    /\ now = <<2026, 51>>
    /\ current_season = "Host"
    /\ drive = EmptyDrive
    /\ last = NoLast
    /\ drive_loads = 0
    /\ sel = NoSel
    /\ call = NoCall
    /\ steps = 0
    /\ meals_per_week = meals_per_week_default
    /\ drive_token \in BOOLEAN
    /\ settings_call = NoSettingsCall
    /\ ViewerIdle
    /\ BrowseIdle
    /\ ClientIdle
    /\ CredIdle
    /\ RecipeIdle
    /\ OtherIdle

SettingsTick == steps < MaxSettingsOps /\ steps' = steps + 1 /\ UNCHANGED SettingsFrame

\* the slider of the profile page with its on_change callback
on_meals_per_week_change(m) ==
    /\ SettingsTick
    /\ m # meals_per_week
    /\ meals_per_week' = m
    /\ LET r == save_user_settings_to_drive(drive_token, m)
       IN  settings_call' =
             [op |-> "save_user_settings_to_drive", token |-> drive_token,
              ret |-> r.ret, exc |-> r.exc,
              requested |-> IF drive_token THEN Some(m)
                            ELSE settings_call.requested,
              later |-> IF drive_token THEN FALSE ELSE settings_call.later]
    /\ UNCHANGED drive_token

\* main() of a rerun in the running session
SettingsRerun ==
    /\ SettingsTick
    /\ LET r == initialize_user_settings(drive_token, Some(meals_per_week))
       IN  /\ meals_per_week' = r.meals_per_week
           /\ settings_call' =
                [op |-> "initialize_user_settings", token |-> drive_token,
                 ret |-> r.ret, exc |-> r.exc,
                 requested |-> settings_call.requested,
                 later |-> settings_call.later]
    /\ UNCHANGED drive_token

\* main() of the first run of a new session: session state starts empty
SettingsNewSession ==
    /\ SettingsTick
    /\ drive_token' = FALSE
    /\ LET r == initialize_user_settings(FALSE, Absent)
       IN  /\ meals_per_week' = r.meals_per_week
           /\ settings_call' =
                [op |-> "initialize_user_settings", token |-> FALSE,
                 ret |-> r.ret, exc |-> r.exc,
                 requested |-> settings_call.requested,
                 later |-> TRUE]

\* the Drive authorization of the session is granted or withdrawn
SettingsAuthorize ==
    /\ SettingsTick
    /\ drive_token' = ~drive_token
    /\ settings_call' = [settings_call EXCEPT !.op = "authorize"]
    /\ UNCHANGED meals_per_week

NextSettings ==
    \/ \E m \in SliderValues : on_meals_per_week_change(m)
    \/ SettingsRerun
    \/ SettingsNewSession
    \/ SettingsAuthorize

SpecSettings == InitSettings /\ [][NextSettings]_vars


(***************************************************************************)
(* The recipe viewer's session state                                       *)
(***************************************************************************)
\* what load_defaults() can return: a bundled list, or [] when the file is
\* missing or unreadable
ViewPools == DefaultPools \cup {<<>>}

\* names another page can hand over: those of the bundled recipes and of
\* the recipes loaded from Drive
MarkerNames == RecipeNames

\* get_all_recipes of the viewer: the session's default recipes, or a direct
\* load when they are empty (kept in the session when it yields something)
view_get_all_recipes(defaults, loaded) ==
    IF defaults # <<>>
    THEN [recipes |-> defaults, default_recipes |-> defaults]
    ELSE [recipes |-> loaded, default_recipes |-> loaded]

\* indices (from 0) of the recipes called recipe_name
IndicesOf(recipes, recipe_name) ==
    {i \in 0..(Len(recipes) - 1) : recipes[i + 1].name = recipe_name}

SetOfMax(S) == CHOOSE x \in S : \A y \in S : y <= x
SetOfMin(S) == CHOOSE x \in S : \A y \in S : x <= y

set_selected_recipe_last_match(recipes, idx, recipe_name) ==
    IF IndicesOf(recipes, recipe_name) = {}
    THEN [ret |-> FALSE, idx |-> idx]
    ELSE [ret |-> TRUE, idx |-> Some(SetOfMax(IndicesOf(recipes, recipe_name)))]

\* set_selected_recipe: the first index with that name, else no change
set_selected_recipe(recipes, idx, recipe_name) ==
    IF IndicesOf(recipes, recipe_name) = {}
    THEN [ret |-> FALSE, idx |-> idx]
    ELSE [ret |-> TRUE, idx |-> Some(SetOfMin(IndicesOf(recipes, recipe_name)))]

ClampUpperOnly(idx, n) == IF idx >= n THEN 0 ELSE idx

\* lines 87-91: an index outside 0..n-1 becomes 0
Clamp(idx, n) ==
    LET upper == IF idx >= n THEN 0 ELSE idx
    IN  IF upper < 0 THEN 0 ELSE upper

\* recipes[i] of Python for i >= -len
PyIndex(recipes, i) ==
    IF i >= 0 THEN recipes[i + 1] ELSE recipes[Len(recipes) + i + 1]

\* get_selected_recipe on the list get_all_recipes returned
get_selected_recipe(recipes, idx) ==
    IF recipes = <<>>
    THEN [returned |-> Absent, idx |-> idx]
    ELSE LET i == Clamp(idx.data, Len(recipes))
         IN  [returned |-> Some(PyIndex(recipes, i)), idx |-> Some(i)]

view_add_always(weekly, recipe) ==
    [ret |-> TRUE, weekly_recipes |-> Append(weekly, recipe)]

\* add_to_weekly_recipes of the viewer page
view_add_to_weekly_recipes(weekly, recipe) ==
    IF recipe.name \notin NamesOf(weekly)
    THEN [ret |-> TRUE, weekly_recipes |-> Append(weekly, recipe)]
    ELSE [ret |-> FALSE, weekly_recipes |-> weekly]

ViewFrame == <<default_recipes_loaded, local_recipes, weekly_plans, meals_per_week,
               recipes_loaded_from_drive, drive_token, now, current_season, drive,
               last, drive_loads, sel, call, settings_vars, browse_vars,
               client_vars, cred_vars, recipe_vars,
        other_vars>>

\* a session in which other pages have run: the default recipes are loaded
\* or not, and selected_recipe_idx holds whatever an earlier visit left
InitView ==
    /\ default_recipes \in ViewPools
    /\ default_recipes_loaded = FALSE
    /\ local_recipes = <<>>
    /\ weekly_recipes = <<>>
    /\ weekly_plans = EmptyDict
    /\ meals_per_week = meals_per_week_default
    /\ recipes_loaded_from_drive = FALSE
    /\ drive_token = FALSE
    /\ now = <<2026, 51>>
    /\ current_season = "Host"
    /\ drive = EmptyDrive
    /\ last = NoLast
    /\ drive_loads = 0
    /\ sel = NoSel
    /\ call = NoCall
    /\ steps = 0
    /\ SettingsIdle
    /\ BrowseIdle
    /\ ClientIdle
    /\ CredIdle
    /\ RecipeIdle
    /\ OtherIdle
    /\ selected_recipe_idx \in {Absent} \cup {Some(i) : i \in (-1)..MaxViewIdx}
    /\ selected_recipe_name = Absent
    /\ view_call = NoViewCall

ViewTick == steps < MaxViewOps /\ steps' = steps + 1 /\ UNCHANGED ViewFrame

ViewCall(op) ==
    [NoViewCall EXCEPT !.op = op, !.idx_before = selected_recipe_idx,
                       !.had_marker = selected_recipe_name.present,
                       !.pre_weekly = weekly_recipes]

\* initialize_session_state of the viewer page
ViewInitialize ==
    /\ ViewTick
    /\ \E loaded1 \in ViewPools, loaded2 \in ViewPools :
        LET idx0 == IF selected_recipe_idx.present THEN selected_recipe_idx
                    ELSE Some(0)
            defaults0 == IF default_recipes = <<>> THEN loaded1 ELSE default_recipes
            all == view_get_all_recipes(defaults0, loaded2)
            r == set_selected_recipe(all.recipes, idx0, selected_recipe_name.data)
        IN  IF selected_recipe_name.present
            THEN /\ selected_recipe_idx' = r.idx
                 /\ default_recipes' = all.default_recipes
                 /\ selected_recipe_name' = Absent
                 /\ view_call' = [ViewCall("initialize_session_state") EXCEPT
                                     !.name = selected_recipe_name.data,
                                     !.recipes = all.recipes,
                                     !.ret = IF r.ret THEN "True" ELSE "False"]
            ELSE /\ selected_recipe_idx' = idx0
                 /\ default_recipes' = defaults0
                 /\ selected_recipe_name' = Absent
                 /\ view_call' = [ViewCall("initialize_session_state") EXCEPT
                                     !.recipes = defaults0]
    /\ UNCHANGED weekly_recipes

\* get_selected_recipe, called by the page after its initialization
ViewGetSelected ==
    /\ ViewTick
    /\ selected_recipe_idx.present
    /\ \E loaded \in ViewPools :
        LET all == view_get_all_recipes(default_recipes, loaded)
            r == get_selected_recipe(all.recipes, selected_recipe_idx)
        IN  /\ selected_recipe_idx' = r.idx
            /\ default_recipes' = all.default_recipes
            /\ view_call' = [ViewCall("get_selected_recipe") EXCEPT
                                !.recipes = all.recipes,
                                !.returned = r.returned,
                                !.ret = IF r.returned.present THEN "recipe"
                                        ELSE "None"]
    /\ UNCHANGED <<selected_recipe_name, weekly_recipes>>

\* the page follows its recipe selector: set_selected_recipe(name)
ViewSetSelected(recipe_name) ==
    /\ ViewTick
    /\ selected_recipe_idx.present
    /\ \E loaded \in ViewPools :
        LET all == view_get_all_recipes(default_recipes, loaded)
            r == set_selected_recipe(all.recipes, selected_recipe_idx, recipe_name)
        IN  /\ selected_recipe_idx' = r.idx
            /\ default_recipes' = all.default_recipes
            /\ view_call' = [ViewCall("set_selected_recipe") EXCEPT
                                !.name = recipe_name,
                                !.recipes = all.recipes,
                                !.ret = IF r.ret THEN "True" ELSE "False"]
    /\ UNCHANGED <<selected_recipe_name, weekly_recipes>>

\* add_to_weekly_recipes(recipe) of the viewer page
ViewAddToWeekly(recipe) ==
    /\ ViewTick
    /\ LET r == view_add_to_weekly_recipes(weekly_recipes, recipe)
       IN  /\ weekly_recipes' = r.weekly_recipes
           /\ view_call' = [ViewCall("add_to_weekly_recipes") EXCEPT
                               !.recipe = Some(recipe),
                               !.ret = IF r.ret THEN "True" ELSE "False"]
    /\ UNCHANGED <<default_recipes, selected_recipe_idx, selected_recipe_name>>

\* another page leaves the name of a recipe before navigating to the viewer
ViewSetMarker(recipe_name) ==
    /\ ViewTick
    /\ selected_recipe_name' = Some(recipe_name)
    /\ view_call' = [ViewCall("set_marker") EXCEPT !.name = recipe_name]
    /\ UNCHANGED <<default_recipes, selected_recipe_idx, weekly_recipes>>

\* another page reloads the default recipes, changing the size of the list
ViewDefaultsChange ==
    /\ ViewTick
    /\ \E pool \in ViewPools :
        /\ pool # default_recipes
        /\ default_recipes' = pool
    /\ view_call' = ViewCall("load_default_recipes")
    /\ UNCHANGED <<selected_recipe_idx, selected_recipe_name, weekly_recipes>>

NextView ==
    \/ ViewInitialize
    \/ ViewGetSelected
    \/ \E n \in MarkerNames : ViewSetSelected(n)
    \/ \E r \in Catalogue : ViewAddToWeekly(r)
    \/ \E n \in MarkerNames : ViewSetMarker(n)
    \/ ViewDefaultsChange

SpecView == InitView /\ [][NextView]_vars


(***************************************************************************)
(* The browse page: search, filters and pagination                         *)
(***************************************************************************)
\* Text is a sequence of characters, so that lower() and `in` are computed.
Lower(c) == IF c = "A" THEN "a" ELSE IF c = "Y" THEN "y" ELSE c
LowerText(t) == [i \in 1..Len(t) |-> Lower(t[i])]

\* u in v, for strings
IsSubstring(u, v) ==
    \E i \in 0..(Len(v) - Len(u)) : SubSeq(v, i + 1, i + Len(u)) = u

\* the recipes of a library: eleven bundled ones and two or three of the
\* user's own, which carry no 'source' key
BrowseRecipe(i) ==
    [name |-> IF i % 2 = 1 THEN <<"A", "b">> ELSE <<"b">>,
     ingredients |-> IF i = 2 THEN {<<"a">>} ELSE {},
     tags |-> {},
     collections |-> IF i <= 11 THEN {<<"x">>}
                     ELSE IF i <= 13 THEN {<<"Y">>} ELSE {<<"x">>, <<"Y">>},
     source |-> IF i <= 11 THEN "Default" ELSE "missing",
     rating |-> i % 3,
     id |-> i]

BrowseDefaults == [i \in 1..11 |-> BrowseRecipe(i)]
BrowseLocals == [i \in 1..2 |-> BrowseRecipe(11 + i)]
BrowseLocalsMore == [i \in 1..3 |-> BrowseRecipe(11 + i)]

SearchTexts == {<<>>, <<"a">>, <<"B">>}
SourceOptions == {"All", "Local", "Default"}

recipes_per_page == 10

\* get_all_categories: the collection names of the recipes
get_all_categories(recipes) ==
    UNION {recipes[i].collections : i \in 1..Len(recipes)} \ {<<>>}

\* lines 11-44 of filter_recipes, for one recipe
MatchesSearch(r, search_term) ==
    LET search_lower == LowerText(search_term)
    IN  \/ IsSubstring(search_lower, LowerText(r.name))
        \/ \E ing \in r.ingredients : IsSubstring(search_lower, LowerText(ing))
        \/ \E tag \in r.tags : IsSubstring(search_lower, LowerText(tag))
        \/ \E coll \in r.collections : IsSubstring(search_lower, LowerText(coll))

\* matches_categories: every selected category is among the recipe's
MatchesCategories(r, selected) ==
    {LowerText(c) : c \in selected}
        \subseteq {LowerText(c) : c \in r.tags \cup r.collections}

\* r.get('source', 'Local')
SourceOf(r) == IF r.source = "missing" THEN "Local" ELSE r.source

\* sorted(filtered, key=rating, reverse=True): stable, highest first
RECURSIVE SortByRating(_)
SortByRating(recipes) ==
    IF recipes = <<>> THEN <<>>
    ELSE LET top == CHOOSE i \in 1..Len(recipes) :
                       /\ \A j \in 1..Len(recipes) :
                            recipes[j].rating <= recipes[i].rating
                       /\ \A j \in 1..(i - 1) :
                            recipes[j].rating < recipes[i].rating
         IN  <<recipes[top]>> \o SortByRating(RemoveAt(recipes, top))

filter_recipes(recipes, search_term, selected, source_filter) ==
    LET Keep(r) ==
            /\ (search_term # <<>>) => MatchesSearch(r, search_term)
            /\ (selected # {}) => MatchesCategories(r, selected)
            /\ (source_filter # "All") => SourceOf(r) = source_filter
    IN  SortByRating(SelectSeq(recipes, Keep))

on_change_keep(page) == page

\* the on_change callback of the three controls
on_change_reset(page) == 0

BoundPageNone(page, total_pages) == page

\* "Ensure current page is within bounds": the two assignments made to
\* current_page before the slice is computed
BoundPage(page, total_pages) ==
    LET upper == IF page >= total_pages THEN total_pages - 1 ELSE page
    IN  IF upper < 0 THEN 0 ELSE upper

\* display_recipes: filter, bound the page, slice and offer the buttons
display_recipes(defaults, locals, search_term, selected, source_filter, page) ==
    LET all_recipes == get_all_recipes(defaults, locals)
        filtered == filter_recipes(all_recipes, search_term, selected, source_filter)
        total_recipes == Len(filtered)
        total_pages == ((total_recipes - 1) \div recipes_per_page) + 1
        bounded == BoundPage(page, total_pages)
        start_idx == bounded * recipes_per_page
        end_idx == Min(start_idx + recipes_per_page, total_recipes)
    IN  IF all_recipes = <<>> \/ filtered = <<>>
        THEN [sliced |-> FALSE, page |-> page, start_idx |-> 0, end_idx |-> 0,
              total |-> total_recipes, previous_shown |-> FALSE,
              next_shown |-> FALSE]
        ELSE [sliced |-> TRUE, page |-> bounded, start_idx |-> start_idx,
              end_idx |-> end_idx, total |-> total_recipes,
              previous_shown |-> bounded > 0,
              next_shown |-> bounded < total_pages - 1]

\* one run of view_all_recipes: the search text counts only when the user
\* has recipes of their own
view_all_recipes(defaults, locals, search_term, selected, source_filter, page) ==
    display_recipes(defaults, locals,
                    IF locals # <<>> THEN search_term ELSE <<>>,
                    selected, source_filter, page)

\* the record of a run: `changed` says that a control has changed since the
\* list was last sliced before this run, `pending` that this is still so
\* after it
BrowseRun(op, page_before, changed, r) ==
    [op |-> op, page_before |-> page_before,
     changed |-> changed, pending |-> changed /\ ~r.sliced,
     sliced |-> r.sliced, page_at_slice |-> r.page, start_idx |-> r.start_idx,
     end_idx |-> r.end_idx, total |-> r.total,
     previous_shown |-> r.previous_shown, next_shown |-> r.next_shown]

BrowseFrame == <<default_recipes, default_recipes_loaded, local_recipes,
                 weekly_recipes, weekly_plans, meals_per_week,
                 recipes_loaded_from_drive, drive_token, now, current_season,
                 drive, last, drive_loads, steps, sel, call, settings_vars,
                 viewer_vars, client_vars, cred_vars, recipe_vars,
        other_vars>>

\* the page when it is first shown, in a session with or without recipes
\* of the user's own
InitBrowse ==
    /\ default_recipes = BrowseDefaults
    /\ default_recipes_loaded = TRUE
    /\ local_recipes \in {<<>>, BrowseLocals}
    /\ weekly_recipes = <<>>
    /\ weekly_plans = EmptyDict
    /\ meals_per_week = meals_per_week_default
    /\ recipes_loaded_from_drive = TRUE
    /\ drive_token = FALSE
    /\ now = <<2026, 51>>
    /\ current_season = "Host"
    /\ drive = EmptyDrive
    /\ last = NoLast
    /\ drive_loads = 0
    /\ steps = 0
    /\ sel = NoSel
    /\ call = NoCall
    /\ SettingsIdle
    /\ ViewerIdle
    /\ ClientIdle
    /\ CredIdle
    /\ RecipeIdle
    /\ OtherIdle
    /\ search = <<>>
    /\ categories = {}
    /\ source = "All"
    /\ current_page = 0
    /\ browse_call = BrowseRun("open", 0, FALSE,
                               view_all_recipes(default_recipes, local_recipes,
                                                <<>>, {}, "All", 0))

\* the rerun that follows a change of a control: the callback first
BrowseAfterChange(op, search_term, selected, source_filter) ==
    LET r == view_all_recipes(default_recipes, local_recipes, search_term,
                              selected, source_filter,
                              on_change_reset(current_page))
    IN  /\ current_page' = r.page
        /\ browse_call' = BrowseRun(op, current_page, TRUE, r)

\* the user edits the search box
BrowseChangeSearch(text) ==
    /\ text # search
    /\ search' = text
    /\ BrowseAfterChange("search", text, categories, source)
    /\ UNCHANGED <<categories, source, BrowseFrame>>

\* the user changes the category selection
BrowseChangeCategories(selected) ==
    /\ local_recipes # <<>>
    /\ selected \subseteq
         get_all_categories(get_all_recipes(default_recipes, local_recipes))
    /\ selected # categories
    /\ categories' = selected
    /\ BrowseAfterChange("categories", search, selected, source)
    /\ UNCHANGED <<search, source, BrowseFrame>>

\* the user picks another source
BrowseChangeSource(option) ==
    /\ option # source
    /\ source' = option
    /\ BrowseAfterChange("source", search, categories, option)
    /\ UNCHANGED <<search, categories, BrowseFrame>>

\* "Previous 10" / "Next 10": the run in which the button reports the click
\* moves the page and calls st.rerun(), and the rerun slices again
BrowseTurnPage(delta) ==
    /\ IF delta = 1 THEN browse_call.next_shown ELSE browse_call.previous_shown
    /\ LET first == view_all_recipes(default_recipes, local_recipes, search,
                                     categories, source, current_page)
           r == view_all_recipes(default_recipes, local_recipes, search,
                                 categories, source, first.page + delta)
       IN  /\ current_page' = r.page
           /\ browse_call' = BrowseRun(IF delta = 1 THEN "next" ELSE "previous",
                                       current_page, browse_call.pending, r)
    /\ UNCHANGED <<search, categories, source, BrowseFrame>>

\* the page is shown again without any change, as after a navigation
BrowseRerun ==
    /\ LET r == view_all_recipes(default_recipes, local_recipes, search,
                                 categories, source, current_page)
       IN  /\ current_page' = r.page
           /\ browse_call' = BrowseRun("rerun", current_page,
                                       browse_call.pending, r)
    /\ UNCHANGED <<search, categories, source, BrowseFrame>>

\* another page replaces the user's own recipes (a load from Drive)
BrowseLocalsChange ==
    /\ local_recipes # <<>>
    /\ local_recipes' = IF local_recipes = BrowseLocals THEN BrowseLocalsMore
                        ELSE BrowseLocals
    /\ browse_call' = [browse_call EXCEPT !.op = "load_recipes_from_drive",
                                          !.sliced = FALSE,
                                          !.previous_shown = FALSE,
                                          !.next_shown = FALSE]
    /\ UNCHANGED <<search, categories, source, current_page, default_recipes,
                   default_recipes_loaded, weekly_recipes, weekly_plans,
                   meals_per_week, recipes_loaded_from_drive, drive_token, now,
                   current_season, drive, last, drive_loads, steps, sel, call,
                   settings_vars, viewer_vars, client_vars, cred_vars,
                   recipe_vars,
        other_vars>>

\* a load from Drive gives recipes to a user who had none of their own:
\* from now on the search box counts
BrowseLocalsFirstLoad ==
    /\ local_recipes = <<>>
    /\ local_recipes' = BrowseLocals
    /\ browse_call' = [browse_call EXCEPT !.op = "load_recipes_from_drive",
                                          !.sliced = FALSE,
                                          !.previous_shown = FALSE,
                                          !.next_shown = FALSE]
    /\ UNCHANGED <<search, categories, source, current_page, default_recipes,
                   default_recipes_loaded, weekly_recipes, weekly_plans,
                   meals_per_week, recipes_loaded_from_drive, drive_token, now,
                   current_season, drive, last, drive_loads, steps, sel, call,
                   settings_vars, viewer_vars, client_vars, cred_vars,
                   recipe_vars, other_vars>>

NextBrowse ==
    \/ \E text \in SearchTexts : BrowseChangeSearch(text)
    \/ \E selected \in SUBSET {<<"x">>, <<"Y">>} : BrowseChangeCategories(selected)
    \/ \E option \in SourceOptions : BrowseChangeSource(option)
    \/ \E delta \in {-1, 1} : BrowseTurnPage(delta)
    \/ BrowseRerun
    \/ BrowseLocalsChange
    \/ BrowseLocalsFirstLoad

SpecBrowse == InitBrowse /\ [][NextBrowse]_vars


(***************************************************************************)
(* The integration client and its subprocess bridge                        *)
(***************************************************************************)
\* a line of bridge output: a JSON object that parses, a {...} line that
\* does not, or other text
JsonLine(success, tag) == [kind |-> "json", success |-> success, tag |-> tag]
BadJsonLine == [kind |-> "bad_json", success |-> FALSE, tag |-> 0]
TextLine == [kind |-> "text", success |-> FALSE, tag |-> 0]
BridgeLines == {JsonLine(TRUE, 1), JsonLine(FALSE, 2), BadJsonLine, TextLine}

\* startswith('{') and endswith('}')
LooksLikeJson(line) == line.kind \in {"json", "bad_json"}
\* json.loads does not raise
Parses(line) == line.kind = "json"

\* json.loads(line)
Loads(line) ==
    [success |-> line.success,
     error |-> IF line.success THEN "" ELSE "bridge error", tag |-> line.tag]

BridgeFailure(error) == [success |-> FALSE, error |-> error, tag |-> 0]

\* for line in reversed(lines): the indices of the lines that are returned
\* when reached
JsonIndices(lines) ==
    {i \in 1..Len(lines) : LooksLikeJson(lines[i]) /\ Parses(lines[i])}

HasJson(lines) == JsonIndices(lines) # {}
LastJson(lines) == Loads(lines[SetOfMax(JsonIndices(lines))])

\* the probe of __init__: the runtime answers `node --version`, and the
\* bridge's dependencies are present or can be installed
NodeProbes == {"ok", "nonzero", "FileNotFoundError"}
DependencyStates == {"present", "installed", "npm_missing", "install_failed"}

\* _check_nodejs raises RuntimeError
CheckNodejsRaises(node) == node # "ok"
\* _setup_npm_dependencies raises RuntimeError
SetupNpmRaises(deps) == deps \in {"npm_missing", "install_failed"}

ProbeIgnoresRuntime(node, deps) == ~SetupNpmRaises(deps)

\* the value __init__ leaves in nodejs_available
ProbeSucceeds(node, deps) == ~CheckNodejsRaises(node) /\ ~SetupNpmRaises(deps)

\* AnyListOfficialClient(email, password)
client_init(email, password, node, deps) ==
    [constructed |-> TRUE, email |-> email, password |-> password,
     logged_in |-> FALSE, nodejs_available |-> ProbeSucceeds(node, deps),
     node |-> node]

\* _run_bridge_command with the subprocess answering `out`
run_bridge_command(available, out) ==
    IF ~available
    THEN [result |-> BridgeFailure("Node.js is not available"), spawned |-> 0]
    ELSE IF out.raises
    THEN [result |-> BridgeFailure("exception"), spawned |-> 1]
    ELSE IF out.stdout # <<>>
    THEN IF HasJson(out.stdout)
         THEN [result |-> LastJson(out.stdout), spawned |-> 1]
         ELSE IF out.stderr # <<>> /\ HasJson(out.stderr)
         THEN [result |-> LastJson(out.stderr), spawned |-> 1]
         ELSE [result |-> BridgeFailure("No valid JSON response from bridge"),
               spawned |-> 1]
    ELSE [result |-> BridgeFailure("No response from bridge"), spawned |-> 1]

HasEmailOnly(c) == c.email # ""

\* not (not self.email or not self.password)
HasCredentials(c) == c.email # "" /\ c.password # ""

\* login(email, password)
client_login(c, email, password, out) ==
    LET e == IF email # "" THEN email ELSE c.email
        pw == IF password # "" THEN password ELSE c.password
        r == run_bridge_command(c.nodejs_available, out)
    IN  IF e = "" \/ pw = ""
        THEN [client |-> c, ret |-> "False", bridge_called |-> FALSE,
              result |-> NoBridgeResult, spawned |-> 0]
        ELSE IF r.result.success
        THEN [client |-> [c EXCEPT !.logged_in = TRUE, !.email = e,
                                   !.password = pw],
              ret |-> "True", bridge_called |-> TRUE, result |-> r.result,
              spawned |-> r.spawned]
        ELSE [client |-> c, ret |-> "False", bridge_called |-> TRUE,
              result |-> r.result, spawned |-> r.spawned]

\* what each read operation returns on success and on failure
ReadOps ==
    [fetch_recipes |-> [ok |-> "recipes", failed |-> "[]"],
     fetch_recipe_by_id |-> [ok |-> "recipe", failed |-> "None"],
     get_lists |-> [ok |-> "lists", failed |-> "[]"],
     get_recipe_collections |-> [ok |-> "collections", failed |-> "[]"],
     create_recipe |-> [ok |-> "recipe", failed |-> "None"]]

\* fetch_recipes, fetch_recipe_by_id, get_lists, get_recipe_collections and
\* create_recipe: the credential guard, the bridge command, the result
client_read(c, op, out) ==
    LET r == run_bridge_command(c.nodejs_available, out)
    IN  IF ~HasCredentials(c)
        THEN [client |-> c, ret |-> ReadOps[op].failed, bridge_called |-> FALSE,
              result |-> NoBridgeResult, spawned |-> 0]
        ELSE [client |-> c,
              ret |-> IF r.result.success THEN ReadOps[op].ok
                      ELSE ReadOps[op].failed,
              bridge_called |-> TRUE, result |-> r.result, spawned |-> r.spawned]

\* answers of the bridge to the operations of a client
ClientOutputs ==
    {[raises |-> FALSE, stdout |-> <<TextLine, JsonLine(TRUE, 1)>>, stderr |-> <<>>],
     [raises |-> FALSE, stdout |-> <<JsonLine(FALSE, 2)>>, stderr |-> <<TextLine>>],
     [raises |-> FALSE, stdout |-> <<>>, stderr |-> <<>>],
     [raises |-> TRUE, stdout |-> <<>>, stderr |-> <<>>]}

Emails == {"", "e"}
Passwords == {"", "p"}

ClientFrame == <<default_recipes, default_recipes_loaded, local_recipes,
                 weekly_recipes, weekly_plans, meals_per_week,
                 recipes_loaded_from_drive, drive_token, now, current_season,
                 drive, last, drive_loads, sel, call, settings_vars,
                 viewer_vars, browse_vars, cred_vars, recipe_vars,
        other_vars>>

\* the components other than the client, unused
OthersIdleForClient ==
    /\ default_recipes = <<>>
    /\ default_recipes_loaded = FALSE
    /\ local_recipes = <<>>
    /\ weekly_recipes = <<>>
    /\ weekly_plans = EmptyDict
    /\ meals_per_week = meals_per_week_default
    /\ recipes_loaded_from_drive = FALSE
    /\ drive_token = FALSE
    /\ now = <<2026, 51>>
    /\ current_season = "Host"
    /\ drive = EmptyDrive
    /\ last = NoLast
    /\ drive_loads = 0
    /\ steps = 0
    /\ sel = NoSel
    /\ call = NoCall
    /\ SettingsIdle
    /\ ViewerIdle
    /\ BrowseIdle

InitClient ==
    /\ OthersIdleForClient
    /\ CredIdle
    /\ RecipeIdle
    /\ OtherIdle
    /\ ClientIdle

ClientTick ==
    /\ steps < MaxClientOps
    /\ steps' = steps + 1
    /\ UNCHANGED <<ClientFrame, bridge_out>>

ClientCall(op, r) ==
    [op |-> op, ret |-> r.ret, raised |-> FALSE, spawned |-> r.spawned,
     bridge_called |-> r.bridge_called, result |-> r.result, pre |-> client]

\* AnyListOfficialClient(email, password)
ClientConstruct(email, password) ==
    /\ ClientTick
    /\ \E node \in NodeProbes, deps \in DependencyStates :
        /\ client' = client_init(email, password, node, deps)
        /\ client_call' = [NoClientCall EXCEPT !.op = "__init__", !.pre = client]

ClientLogin(email, password) ==
    /\ ClientTick
    /\ client.constructed
    /\ \E out \in ClientOutputs :
        LET r == client_login(client, email, password, out)
        IN  /\ client' = r.client
            /\ client_call' = ClientCall("login", r)

ClientRead(op) ==
    /\ ClientTick
    /\ client.constructed
    /\ \E out \in ClientOutputs :
        LET r == client_read(client, op, out)
        IN  /\ client' = r.client
            /\ client_call' = ClientCall(op, r)

\* close()
ClientClose ==
    /\ ClientTick
    /\ client.constructed
    /\ client' = [client EXCEPT !.logged_in = FALSE]
    /\ client_call' = [NoClientCall EXCEPT !.op = "close", !.pre = client]

NextClient ==
    \/ \E email \in Emails, password \in Passwords : ClientConstruct(email, password)
    \/ \E email \in Emails, password \in Passwords : ClientLogin(email, password)
    \/ \E op \in DOMAIN ReadOps : ClientRead(op)
    \/ ClientClose

SpecClient == InitClient /\ [][NextClient]_vars

(***************************************************************************)
(* One bridge command, for any output of the subprocess                    *)
(***************************************************************************)
BridgeStreams == SeqsUpTo(BridgeLines, MaxBridgeLines)

InitBridge ==
    /\ OthersIdleForClient
    /\ CredIdle
    /\ RecipeIdle
    /\ OtherIdle
    /\ client \in {client_init("e", "p", node, "present") : node \in {"ok", "nonzero"}}
    /\ client_call = NoClientCall
    /\ bridge_out \in [raises : BOOLEAN, stdout : BridgeStreams,
                       stderr : BridgeStreams]

\* _run_bridge_command(command, *args)
BridgeRun ==
    /\ client_call.op = "none"
    /\ LET r == run_bridge_command(client.nodejs_available, bridge_out)
       IN  client_call' =
             [op |-> "_run_bridge_command", ret |-> "dict", raised |-> FALSE,
              spawned |-> r.spawned, bridge_called |-> TRUE,
              result |-> r.result, pre |-> client]
    /\ UNCHANGED <<ClientFrame, steps, client, bridge_out>>

NextBridge == BridgeRun

SpecBridge == InitBridge /\ [][NextBridge]_vars


(***************************************************************************)
(* The credential manager and its two files                                *)
(***************************************************************************)
FernetKeys == {1, 2}
\* the randomness of one Fernet.encrypt call
FernetNonces == {1, 2}
CredEmails == {"e1@x"}
CredPasswords == {"pw1", "pw2"}

\* cipher.encrypt(password.encode()).decode(): a token that only its key opens
Encrypt(key, nonce, plaintext) ==
    [kind |-> "token", key |-> key, nonce |-> nonce, body |-> plaintext]

\* cipher.decrypt(field.encode()).decode(); InvalidToken for anything that
\* is not a token of this key
Decrypt(key, field) ==
    IF field.kind = "token" /\ field.key = key
    THEN [raised |-> FALSE, plaintext |-> field.body]
    ELSE [raised |-> TRUE, plaintext |-> ""]

\* the text a reader of the file sees in a field
FieldText(field) ==
    IF field.kind = "plain" THEN <<"plain", field.body>>
    ELSE <<"token", field.key, field.nonce>>

DictDel(d, k) == [x \in DOMAIN d \ {k} |-> d[x]]

\* _load_all_credentials: {} when the file does not exist
load_all_credentials(file) == IF file.present THEN file.data ELSE EmptyDict

StoreOnly(creds, username, entry) == DictSet(EmptyDict, username, entry)

\* creds[username] = {...}
StoreEntry(creds, username, entry) == DictSet(creds, username, entry)

\* save_credentials; `write_fails` is an OSError of open(creds_file, 'w')
save_credentials(file, key, nonce, username, email, password, write_fails) ==
    LET creds == load_all_credentials(file)
        entry == [email |-> email, password |-> Encrypt(key, nonce, password),
                  anylist_enabled |-> TRUE]
    IN  IF write_fails
        THEN [ret |-> FALSE, file |-> file]
        ELSE [ret |-> TRUE, file |-> Some(StoreEntry(creds, username, entry))]

\* get_credentials
get_credentials(file, key, username) ==
    LET creds == load_all_credentials(file)
    IN  IF username \notin DOMAIN creds
        THEN Absent
        ELSE LET d == Decrypt(key, creds[username].password)
             IN  IF d.raised THEN Absent
                 ELSE Some([email |-> creds[username].email,
                            password |-> d.plaintext,
                            anylist_enabled |-> creds[username].anylist_enabled])

\* remove_credentials
remove_credentials(file, username, write_fails) ==
    LET creds == load_all_credentials(file)
    IN  IF username \in DOMAIN creds
        THEN IF write_fails THEN [ret |-> FALSE, file |-> file]
             ELSE [ret |-> TRUE, file |-> Some(DictDel(creds, username))]
        ELSE [ret |-> FALSE, file |-> file]

CredFrame == <<default_recipes, default_recipes_loaded, local_recipes,
               weekly_recipes, weekly_plans, meals_per_week,
               recipes_loaded_from_drive, drive_token, now, current_season,
               drive, last, drive_loads, sel, call, settings_vars,
               viewer_vars, browse_vars, client_vars, recipe_vars,
        other_vars>>

InitCred ==
    /\ OthersIdleForClient
    /\ ClientIdle
    /\ CredIdle
    /\ RecipeIdle
    /\ OtherIdle

CredTick == steps < MaxCredOps /\ steps' = steps + 1 /\ UNCHANGED CredFrame

\* get_credential_manager in a new session: CredentialManager() reads the
\* key file, or generates a key and writes it
CredNewManager ==
    /\ CredTick
    /\ \E generated \in FernetKeys :
        LET key == IF key_file.present THEN key_file.data ELSE generated
        IN  /\ key_file' = Some(key)
            /\ cipher' = Some(key)
    /\ cred_call' = [cred_call EXCEPT !.op = "__init__", !.username = "",
                                      !.ret = "None", !.returned = Absent]
    /\ UNCHANGED creds_file

CredSave(username, email, password) ==
    /\ CredTick
    /\ cipher.present
    /\ \E nonce \in FernetNonces, write_fails \in BOOLEAN :
        LET r == save_credentials(creds_file, cipher.data, nonce, username,
                                  email, password, write_fails)
        IN  /\ creds_file' = r.file
            /\ cred_call' =
                 [op |-> "save_credentials", username |-> username,
                  ret |-> IF r.ret THEN "True" ELSE "False",
                  returned |-> Absent,
                  saved |-> IF r.ret
                            THEN [cred_call.saved EXCEPT ![username] = Some(password)]
                            ELSE cred_call.saved]
    /\ UNCHANGED <<key_file, cipher>>

CredGet(username) ==
    /\ CredTick
    /\ cipher.present
    /\ LET r == get_credentials(creds_file, cipher.data, username)
       IN  cred_call' = [cred_call EXCEPT !.op = "get_credentials",
                                          !.username = username,
                                          !.ret = IF r.present THEN "dict" ELSE "None",
                                          !.returned = r]
    /\ UNCHANGED <<creds_file, key_file, cipher>>

CredRemove(username) ==
    /\ CredTick
    /\ cipher.present
    /\ \E write_fails \in BOOLEAN :
        LET r == remove_credentials(creds_file, username, write_fails)
        IN  /\ creds_file' = r.file
            /\ cred_call' =
                 [op |-> "remove_credentials", username |-> username,
                  ret |-> IF r.ret THEN "True" ELSE "False",
                  returned |-> Absent,
                  saved |-> IF r.ret
                            THEN [cred_call.saved EXCEPT ![username] = Absent]
                            ELSE cred_call.saved]
    /\ UNCHANGED <<key_file, cipher>>

NextCred ==
    \/ CredNewManager
    \/ \E u \in Users, e \in CredEmails, pw \in CredPasswords : CredSave(u, e, pw)
    \/ \E u \in Users : CredGet(u)
    \/ \E u \in Users : CredRemove(u)

SpecCred == InitCred /\ [][NextCred]_vars


(***************************************************************************)
(* models/recipe.py: the mutating operations of a Recipe                   *)
(***************************************************************************)
IngredientIds == {"i1", "i2"}
RecipeIds == {"r1", "uuid"}
YieldAmounts == {0, 2}
YieldUnits == {"", "dl"}

\* self.version += 1
Bump(r) == [r EXCEPT !.version = r.version + 1]

add_ingredient(r, ingredient_id) ==
    Bump([r EXCEPT !.recipe_ingredients = Append(@, ingredient_id)])

RemovedAlways(before, after) == TRUE

\* len(self.recipe_ingredients) < original_length
Removed(before, after) == Len(after) < Len(before)

remove_ingredient(r, ingredient_id) ==
    LET Other(ing) == ing # ingredient_id
        kept == SelectSeq(r.recipe_ingredients, Other)
        shorter == [r EXCEPT !.recipe_ingredients = kept]
    IN  IF Removed(r.recipe_ingredients, kept)
        THEN [recipe |-> Bump(shorter), ret |-> TRUE]
        ELSE [recipe |-> shorter, ret |-> FALSE]

add_step(r) ==
    Bump([r EXCEPT !.preparation_steps = Append(@, Len(@) + 1)])

set_as_ingredient_producer(r, ingredient_id, yield_amount, yield_unit) ==
    Bump([r EXCEPT !.produces_ingredient = TRUE,
                   !.produced_ingredient_id = ingredient_id,
                   !.yield_amount = IF yield_amount > 0 THEN yield_amount ELSE @,
                   !.yield_unit = IF yield_unit # "" THEN yield_unit ELSE @])

remove_ingredient_production(r) ==
    Bump([r EXCEPT !.produces_ingredient = FALSE, !.produced_ingredient_id = ""])

RecipeFrame == <<default_recipes, default_recipes_loaded, local_recipes,
                 weekly_recipes, weekly_plans, meals_per_week,
                 recipes_loaded_from_drive, drive_token, now, current_season,
                 drive, last, drive_loads, sel, call, settings_vars,
                 viewer_vars, browse_vars, client_vars, cred_vars, other_vars>>

\* a Recipe just constructed, with the id given or a generated one
InitRecipe ==
    /\ OthersIdleForClient
    /\ ClientIdle
    /\ CredIdle
    /\ OtherIdle
    /\ recipe_obj \in {NewRecipe(id) : id \in RecipeIds}
    /\ recipe_call = [NoRecipeCall EXCEPT !.pre = recipe_obj]

RecipeTick == steps < MaxRecipeOps /\ steps' = steps + 1 /\ UNCHANGED RecipeFrame

RecipeAddIngredient(ingredient_id) ==
    /\ RecipeTick
    /\ recipe_obj' = add_ingredient(recipe_obj, ingredient_id)
    /\ recipe_call' = [op |-> "add_ingredient", ret |-> "None",
                       pre |-> recipe_obj]

RecipeRemoveIngredient(ingredient_id) ==
    /\ RecipeTick
    /\ LET r == remove_ingredient(recipe_obj, ingredient_id)
       IN  /\ recipe_obj' = r.recipe
           /\ recipe_call' = [op |-> "remove_ingredient",
                              ret |-> IF r.ret THEN "True" ELSE "False",
                              pre |-> recipe_obj]

RecipeAddStep ==
    /\ RecipeTick
    /\ recipe_obj' = add_step(recipe_obj)
    /\ recipe_call' = [op |-> "add_step", ret |-> "None", pre |-> recipe_obj]

RecipeSetProducer(ingredient_id, yield_amount, yield_unit) ==
    /\ RecipeTick
    /\ recipe_obj' = set_as_ingredient_producer(recipe_obj, ingredient_id,
                                                yield_amount, yield_unit)
    /\ recipe_call' = [op |-> "set_as_ingredient_producer", ret |-> "None",
                       pre |-> recipe_obj]

RecipeRemoveProduction ==
    /\ RecipeTick
    /\ recipe_obj' = remove_ingredient_production(recipe_obj)
    /\ recipe_call' = [op |-> "remove_ingredient_production", ret |-> "None",
                       pre |-> recipe_obj]

NextRecipe ==
    \/ \E i \in IngredientIds : RecipeAddIngredient(i)
    \/ \E i \in IngredientIds : RecipeRemoveIngredient(i)
    \/ RecipeAddStep
    \/ \E i \in IngredientIds, a \in YieldAmounts, u \in YieldUnits :
          RecipeSetProducer(i, a, u)
    \/ RecipeRemoveProduction

SpecRecipe == InitRecipe /\ [][NextRecipe]_vars


(***************************************************************************)
(* models/recipe.py, models/ingredient.py: construction and conversion     *)
(***************************************************************************)
\* dict.get(key, default)
GetOr(field, default) == IF field.present THEN field.data ELSE default

\* a datetime, and the text datetime.isoformat() writes for it: the
\* fraction is left out when the microseconds are zero
DateTimes == {[sec |-> 10, micro |-> 0], [sec |-> 10, micro |-> 5],
              [sec |-> 20, micro |-> 0]}
isoformat(d) == IF d.micro = 0 THEN <<d.sec>> ELSE <<d.sec, d.micro>>
fromisoformat(t) == [sec |-> t[1], micro |-> IF Len(t) = 2 THEN t[2] ELSE 0]

\* DifficultyLevel, MealType, Season: member.value and Enum(value)
EnumValue(member) ==
    CASE member = "DifficultyLevel.EASY" -> "easy"
      [] member = "DifficultyLevel.MEDIUM" -> "medium"
      [] member = "MealType.DINNER" -> "dinner"
      [] member = "Season.WINTER" -> "winter"
      [] OTHER -> ""
DifficultyLevel(value) ==
    CASE value = "easy" -> "DifficultyLevel.EASY"
      [] value = "medium" -> "DifficultyLevel.MEDIUM"
      [] OTHER -> "ValueError"
MealType(value) ==
    CASE value = "dinner" -> "MealType.DINNER"
      [] OTHER -> "ValueError"
Season(value) ==
    CASE value = "winter" -> "Season.WINTER"
      [] OTHER -> "ValueError"
IsEnumMember(x) ==
    x \in {"DifficultyLevel.EASY", "DifficultyLevel.MEDIUM", "MealType.DINNER",
           "Season.WINTER"}

RECURSIVE MapSeq(_, _)
MapSeq(Op(_), seq) ==
    IF seq = <<>> THEN <<>> ELSE <<Op(Head(seq))>> \o MapSeq(Op, Tail(seq))

\* RecipeIngredient, RecipeStep, RecipePhoto: to_dict and from_dict
nested_to_dict(obj) == [obj EXCEPT !.type = "dict"]
nested_from_dict(type, data) == [data EXCEPT !.type = type]

\* the loops of Recipe.__init__ over recipe_ingredients, preparation_steps
\* and photos: a dict is converted, an object of the class is kept
TakeNested(type, items) ==
    LET Usable(item) == item.type \in {"dict", type}
        Convert(item) == IF item.type = "dict" THEN nested_from_dict(type, item)
                         ELSE item
    IN  MapSeq(Convert, SelectSeq(items, Usable))

TakeDifficulty(difficulty) ==
    IF IsEnumMember(difficulty) \/ difficulty = "None" THEN difficulty
    ELSE IF DifficultyLevel(difficulty) = "ValueError" THEN "DifficultyLevel.MEDIUM"
    ELSE DifficultyLevel(difficulty)

TakeMealType(meal_type) ==
    IF IsEnumMember(meal_type) \/ meal_type = "None" THEN meal_type
    ELSE IF MealType(meal_type) = "ValueError" THEN "None"
    ELSE MealType(meal_type)

TakeSeasons(seasons) ==
    LET Known(x) == IsEnumMember(x) \/ Season(x) # "ValueError"
        Convert(x) == IF IsEnumMember(x) THEN x ELSE Season(x)
    IN  MapSeq(Convert, SelectSeq(seasons, Known))

\* created_at / updated_at: a datetime is kept, ISO text is parsed
TakeTime(t) == IF t.text THEN fromisoformat(t.iso) ELSE t.at

Raised(error) == [raised |-> TRUE, error |-> error]
Built(obj) == [raised |-> FALSE, obj |-> obj]

Recipe_init(recipe_id, name_no, kwargs) ==
    IF name_no = "" THEN Raised("ValueError")
    ELSE Built([id |-> IF recipe_id = "" THEN "uuid" ELSE recipe_id,
                names |-> [no |-> name_no,
                           en |-> GetOr(kwargs.name_en, ""),
                           description_no |-> GetOr(kwargs.description_no, ""),
                           description_en |-> GetOr(kwargs.description_en, "")],
                recipe_ingredients |->
                    TakeNested("RecipeIngredient", kwargs.recipe_ingredients),
                preparation_steps |->
                    TakeNested("RecipeStep", kwargs.preparation_steps),
                photos |-> TakeNested("RecipePhoto", kwargs.photos),
                difficulty |-> TakeDifficulty(kwargs.difficulty),
                meal_type |-> TakeMealType(kwargs.meal_type),
                seasons |-> TakeSeasons(kwargs.seasons),
                created_at |-> TakeTime(kwargs.created_at),
                updated_at |-> TakeTime(kwargs.updated_at),
                version |-> kwargs.version])

Recipe_to_dict(r) ==
    [id |-> Some(r.id),
     names |-> Some([no |-> Some(r.names.no), en |-> r.names.en,
                     description_no |-> r.names.description_no,
                     description_en |-> r.names.description_en]),
     recipe_ingredients |-> MapSeq(nested_to_dict, r.recipe_ingredients),
     preparation_steps |-> MapSeq(nested_to_dict, r.preparation_steps),
     photos |-> MapSeq(nested_to_dict, r.photos),
     difficulty |-> IF r.difficulty = "None" THEN "" ELSE EnumValue(r.difficulty),
     meal_type |-> IF r.meal_type = "None" THEN "" ELSE EnumValue(r.meal_type),
     seasons |-> MapSeq(EnumValue, r.seasons),
     created_at |-> [text |-> TRUE, iso |-> isoformat(r.created_at)],
     updated_at |-> [text |-> TRUE, iso |-> isoformat(r.updated_at)],
     version |-> r.version]

\* the keyword arguments from_dict passes on: every key but 'id' and 'names'
DictKwargs(data) ==
    [name_en |-> Absent, description_no |-> Absent, description_en |-> Absent,
     recipe_ingredients |-> data.recipe_ingredients,
     preparation_steps |-> data.preparation_steps,
     photos |-> data.photos,
     difficulty |-> data.difficulty,
     meal_type |-> data.meal_type,
     seasons |-> data.seasons,
     created_at |-> data.created_at,
     updated_at |-> data.updated_at,
     version |-> data.version]

Recipe_from_dict(data) ==
    LET recipe_id == GetOr(data.id, "uuid")
        name_no == IF data.names.present THEN GetOr(data.names.data.no, "") ELSE ""
    IN  IF name_no = "" THEN Raised("ValueError")
        ELSE Recipe_init(recipe_id, name_no, DictKwargs(data))

Ingredient_init(ingredient_id, name_no, name_en, category) ==
    Built([id |-> ingredient_id,
           names |-> [no |-> name_no,
                      en |-> IF name_en = "" THEN name_no ELSE name_en],
           category |-> category])

Ingredient_from_dict(data) ==
    LET ingredient_id == GetOr(data.id, "")
        name_no == IF data.names.present THEN GetOr(data.names.data.no, "") ELSE ""
        name_en == IF data.names.present THEN GetOr(data.names.data.en, name_no)
                   ELSE name_no
    IN  IF ingredient_id = "" \/ name_no = "" THEN Raised("ValueError")
        ELSE Ingredient_init(ingredient_id, name_no, name_en, data.category)

\* the arguments the constructors are tried with
ModelIds == {"", "carrot"}
ModelNames == {"", "Gulrot"}
EnglishNames == {"", "Carrot"}
OptionalText(values) == {Absent} \cup {Some(v) : v \in values}
NestedItems(type) ==
    {<<>>, <<[type |-> type, ref |-> "a", text |-> "1 dl"]>>,
     <<[type |-> "dict", ref |-> "b", text |-> ""]>>}
TimeArguments ==
    {[text |-> FALSE, iso |-> <<>>, at |-> d] : d \in DateTimes}
RecipeKwargs ==
    [name_en : OptionalText({"Soup"}),
     description_no : OptionalText({"God"}),
     description_en : {Absent},
     recipe_ingredients : NestedItems("RecipeIngredient"),
     preparation_steps : {<<>>},
     photos : NestedItems("RecipePhoto"),
     difficulty : {"DifficultyLevel.MEDIUM", "easy", "hard?"},
     meal_type : {"None", "dinner"},
     seasons : {<<>>, <<"winter", "monsoon">>},
     created_at : TimeArguments,
     updated_at : {[text |-> FALSE, iso |-> <<>>, at |-> [sec |-> 20, micro |-> 5]]},
     version : {1, 3}]
IngredientDicts ==
    [id : OptionalText(ModelIds),
     names : {Absent} \cup {Some([no |-> n, en |-> e]) :
                              n \in OptionalText(ModelNames),
                              e \in OptionalText(EnglishNames)},
     category : {"uncategorized"}]
RecipeDictNames ==
    {Absent} \cup {Some([no |-> n, en |-> "", description_no |-> "",
                         description_en |-> ""]) : n \in OptionalText(ModelNames)}

ModelFrame == <<default_recipes, default_recipes_loaded, local_recipes,
                weekly_recipes, weekly_plans, meals_per_week,
                recipes_loaded_from_drive, drive_token, now, current_season,
                drive, last, drive_loads, steps, sel, call, settings_vars,
                viewer_vars, browse_vars, client_vars, cred_vars, recipe_vars,
                image_call, race>>

InitModels ==
    /\ OthersIdleForClient
    /\ ClientIdle
    /\ CredIdle
    /\ RecipeIdle
    /\ OtherIdle

ModelCall(op, input, out) ==
    /\ model_call' = [op |-> op, input |-> input, out |-> out]
    /\ UNCHANGED ModelFrame

ConstructRecipe(recipe_id, name_no, kwargs) ==
    /\ model_call.op = "none"
    /\ ModelCall("Recipe", <<recipe_id, name_no, kwargs>>,
                 Recipe_init(recipe_id, name_no, kwargs))

\* Recipe.from_dict on a stored dictionary whose id or names may be missing
RecipeFromDict(id, names) ==
    /\ model_call.op = "Recipe"
    /\ ~model_call.out.raised
    /\ LET data == [Recipe_to_dict(model_call.out.obj)
                      EXCEPT !.id = id, !.names = names]
       IN  ModelCall("Recipe.from_dict", data, Recipe_from_dict(data))

\* Recipe.from_dict(r.to_dict()) of the recipe just constructed
RecipeRoundTrip ==
    /\ model_call.op = "Recipe"
    /\ ~model_call.out.raised
    /\ ModelCall("round_trip", model_call.out.obj,
                 Recipe_from_dict(Recipe_to_dict(model_call.out.obj)))

ConstructIngredient(ingredient_id, name_no, name_en) ==
    /\ model_call.op = "none"
    /\ ModelCall("Ingredient", <<ingredient_id, name_no, name_en>>,
                 Ingredient_init(ingredient_id, name_no, name_en,
                                 "uncategorized"))

IngredientFromDict(data) ==
    /\ model_call.op = "none"
    /\ ModelCall("Ingredient.from_dict", data, Ingredient_from_dict(data))

NextModels ==
    \/ \E id \in ModelIds, n \in ModelNames, kw \in RecipeKwargs :
          ConstructRecipe(id, n, kw)
    \/ \E id \in OptionalText(ModelIds), names \in RecipeDictNames :
          RecipeFromDict(id, names)
    \/ RecipeRoundTrip
    \/ \E id \in ModelIds, n \in ModelNames, e \in EnglishNames :
          ConstructIngredient(id, n, e)
    \/ \E data \in IngredientDicts : IngredientFromDict(data)

SpecModels == InitModels /\ [][NextModels]_vars

(***************************************************************************)
(* The "Add to This Week" buttons of the browse page and of the viewer     *)
(***************************************************************************)
\* add_to_weekly_recipes of the browse page
browse_add_to_weekly_recipes(weekly, recipe) == Append(weekly, recipe)

\* display_recipe_card: the button of a card of the browse page
BrowseCardAdd(recipe) ==
    /\ Tick
    /\ default_recipes_loaded
    /\ Len(weekly_recipes) < MaxWeekLen
    /\ weekly_recipes' = browse_add_to_weekly_recipes(weekly_recipes, recipe)
    /\ last' = Begin("browse_add")
    /\ UNCHANGED <<weekly_plans, drive, FrameManager>>

\* display_recipe_actions: the button of the recipe viewer
ViewerAdd(recipe) ==
    /\ Tick
    /\ default_recipes_loaded
    /\ Len(weekly_recipes) < MaxWeekLen
    /\ LET r == view_add_to_weekly_recipes(weekly_recipes, recipe)
       IN  /\ weekly_recipes' = r.weekly_recipes
           /\ last' = [Begin("viewer_add") EXCEPT
                          !.ret = IF r.ret THEN "True" ELSE "False"]
    /\ UNCHANGED <<weekly_plans, drive, FrameManager>>

NextMirror ==
    \/ Next
    \/ \E r \in Range(get_all_recipes(default_recipes, local_recipes)) :
          BrowseCardAdd(r)
    \/ \E r \in Range(view_get_all_recipes(default_recipes, <<>>).recipes) :
          ViewerAdd(r)

SpecMirror == Init /\ [][NextMirror]_vars

(***************************************************************************)
(* this_week/week_utils.py: week keys while the calendar moves on          *)
(***************************************************************************)
\* Days are counted from Monday 29 December 2025; date.weekday() is 0 on a
\* Monday.
weekday(day) == day % 7

\* datetime(year, 1, 4) as a day count
Jan4(year) ==
    CASE year = 2026 -> 6
      [] year = 2027 -> 371
      [] year = 2028 -> 736
      [] year = 2029 -> 1102

\* the Monday of ISO week 1: the week that holds 4 January
FirstMonday(year) == Jan4(year) - weekday(Jan4(year))

\* date.isocalendar(): the ISO year and week of a day
isocalendar(day) ==
    LET year == CHOOSE y \in 2026..2028 :
                    FirstMonday(y) <= day /\ day < FirstMonday(y + 1)
    IN  <<year, ((day - FirstMonday(year)) \div 7) + 1>>

\* get_week_date_range: the Monday a week starts on
get_week_date_range(week) ==
    LET jan4 == Jan4(week[1])
        week1_thursday == jan4 - (weekday(jan4) - 3)
        target_thursday == week1_thursday + 7 * (week[2] - 1)
    IN  target_thursday - 3

\* f"{year}-W{week_number:02d}" and parse_week_key
WeekKeyText(key) == <<key[1], "-W", key[2] \div 10, key[2] % 10>>
parse_week_key(text) == <<text[1], 10 * text[3] + text[4]>>

\* the weeks a session can start in
StartWeeks == {<<2026, 51>>, <<2026, 52>>, <<2026, 53>>, <<2027, 1>>, <<2027, 51>>}

InitWeeks ==
    /\ default_recipes \in DefaultPools
    /\ default_recipes_loaded = TRUE
    /\ local_recipes = <<>>
    /\ weekly_recipes = <<>>
    /\ weekly_plans = EmptyDict
    /\ meals_per_week = 3
    /\ recipes_loaded_from_drive = FALSE
    /\ drive_token = FALSE
    /\ now \in StartWeeks
    /\ current_season = "Host"
    /\ drive = UsedDrive
    /\ last = NoLast
    /\ drive_loads = 0
    /\ steps = 0
    /\ sel = NoSel
    /\ call = NoCall
    /\ ComponentsIdle

\* one calendar week passes between two renders
AdvanceWeek ==
    /\ steps < MaxSteps
    /\ steps' = steps + 1
    /\ now' = isocalendar(get_week_date_range(now) + 7)
    /\ last' = Begin("advance")
    /\ UNCHANGED <<default_recipes, default_recipes_loaded, local_recipes,
                   weekly_recipes, weekly_plans, meals_per_week,
                   recipes_loaded_from_drive, drive_token, current_season,
                   drive, drive_loads, sel, call, component_vars>>

NextWeeks ==
    \/ AdvanceWeek
    \/ ConnectDrive
    \/ \E r \in Range(get_all_recipes(default_recipes, local_recipes)),
          o \in WeekOffsets : add_recipe_to_week(r, o)
    \/ \E o \in WeekOffsets : clear_week(o)

SpecWeeks == InitWeeks /\ [][NextWeeks]_vars

(***************************************************************************)
(* data/google_drive_storage.py: two sessions of one user, call by call    *)
(***************************************************************************)
\* Each request to the Drive API is one step; the steps of the two sessions
\* interleave freely.  An upload replaces the content of a file as a whole.
Sessions == {"s1", "s2"}
RaceOps == {"save", "load"}

\* the weekly document each session is saving
RacePayload(s) ==
    IF s = "s1"
    THEN WeeklyPayload(<<RecipeWinter>>, EmptyDict)
    ELSE WeeklyPayload(<<RecipePlain>>, DictSet(EmptyDict, <<2026, 51>>, <<RecipeTwin>>))

FolderOnlyDrive == [folders |-> <<[trashed |-> FALSE]>>, files |-> <<>>]
\* the account may be new, hold the folder only, or hold documents
RaceInitialDrives == {EmptyDrive, FolderOnlyDrive, UsedDrive}

RaceFrame == <<default_recipes, default_recipes_loaded, local_recipes,
               weekly_recipes, weekly_plans, meals_per_week,
               recipes_loaded_from_drive, drive_token, now, current_season,
               last, drive_loads, steps, sel, call, settings_vars,
               viewer_vars, browse_vars, client_vars, cred_vars, recipe_vars,
               model_call, image_call>>

InitRace ==
    /\ default_recipes = <<>>
    /\ default_recipes_loaded = FALSE
    /\ local_recipes = <<>>
    /\ weekly_recipes = <<>>
    /\ weekly_plans = EmptyDict
    /\ meals_per_week = meals_per_week_default
    /\ recipes_loaded_from_drive = FALSE
    /\ drive_token = FALSE
    /\ now = <<2026, 51>>
    /\ current_season = "Host"
    /\ drive \in RaceInitialDrives
    /\ last = NoLast
    /\ drive_loads = 0
    /\ steps = 0
    /\ sel = NoSel
    /\ call = NoCall
    /\ SettingsIdle
    /\ ViewerIdle
    /\ BrowseIdle
    /\ ClientIdle
    /\ CredIdle
    /\ RecipeIdle
    /\ model_call = NoModelCall
    /\ image_call = NoImageCall
    /\ race = [pc |-> [s \in Sessions |-> "idle"],
               op |-> [s \in Sessions |-> "none"],
               folder_id |-> [s \in Sessions |-> NoId],
               file_id |-> [s \in Sessions |-> NoId],
               started |-> [s \in Sessions |-> 0],
               got |-> [s \in Sessions |-> Absent],
               last_upload |-> "none"]

\* save_weekly_recipes / load_weekly_recipes is called
RaceBegin(s, op) ==
    /\ race.pc[s] = "idle"
    /\ race.started[s] < MaxRaceOps
    /\ race' = [race EXCEPT !.pc[s] = "list_folder", !.op[s] = op,
                            !.started[s] = @ + 1, !.folder_id[s] = NoId,
                            !.file_id[s] = NoId]
    /\ UNCHANGED <<drive, RaceFrame>>

\* get_or_create_app_folder: files().list for the folder
RaceListFolder(s) ==
    /\ race.pc[s] = "list_folder"
    /\ race' = IF LiveFolders(drive) # {}
               THEN [race EXCEPT !.pc[s] = "list_file",
                                 !.folder_id[s] = FirstMatch(LiveFolders(drive))]
               ELSE [race EXCEPT !.pc[s] = "create_folder"]
    /\ UNCHANGED <<drive, RaceFrame>>

\* get_or_create_app_folder: files().create for the folder
RaceCreateFolder(s) ==
    /\ race.pc[s] = "create_folder"
    /\ drive' = [drive EXCEPT !.folders = Append(@, [trashed |-> FALSE])]
    /\ race' = [race EXCEPT !.pc[s] = "list_file",
                            !.folder_id[s] = Len(drive.folders) + 1]
    /\ UNCHANGED RaceFrame

\* files().list for the document inside the folder
RaceListFile(s) ==
    /\ race.pc[s] = "list_file"
    /\ LET files == LiveFiles(drive, race.folder_id[s], weekly_recipes_file)
       IN  race' =
             IF files # {}
             THEN [race EXCEPT !.file_id[s] = FirstMatch(files),
                               !.pc[s] = IF race.op[s] = "save" THEN "update"
                                         ELSE "download"]
             ELSE IF race.op[s] = "save"
             THEN [race EXCEPT !.pc[s] = "create_file"]
             ELSE [race EXCEPT !.pc[s] = "idle",
                               !.got[s] = Some(DefaultWeeklyDoc)]
    /\ UNCHANGED <<drive, RaceFrame>>

\* files().update(fileId, media_body)
RaceUpdateFile(s) ==
    /\ race.pc[s] = "update"
    /\ drive' = [drive EXCEPT !.files[race.file_id[s]].content = RacePayload(s)]
    /\ race' = [race EXCEPT !.pc[s] = "idle", !.last_upload = s]
    /\ UNCHANGED RaceFrame

\* files().create(body, media_body)
RaceCreateFile(s) ==
    /\ race.pc[s] = "create_file"
    /\ drive' = [drive EXCEPT !.files =
                    Append(@, [name |-> weekly_recipes_file,
                               parent |-> race.folder_id[s],
                               content |-> RacePayload(s)])]
    /\ race' = [race EXCEPT !.pc[s] = "idle", !.last_upload = s]
    /\ UNCHANGED RaceFrame

\* files().get_media(fileId) and json.loads
RaceDownload(s) ==
    /\ race.pc[s] = "download"
    /\ race' = [race EXCEPT !.pc[s] = "idle",
                            !.got[s] = Some(drive.files[race.file_id[s]].content)]
    /\ UNCHANGED <<drive, RaceFrame>>

NextRace ==
    \/ \E s \in Sessions, op \in RaceOps : RaceBegin(s, op)
    \/ \E s \in Sessions : RaceListFolder(s)
    \/ \E s \in Sessions : RaceCreateFolder(s)
    \/ \E s \in Sessions : RaceListFile(s)
    \/ \E s \in Sessions : RaceUpdateFile(s)
    \/ \E s \in Sessions : RaceCreateFile(s)
    \/ \E s \in Sessions : RaceDownload(s)

SpecRace == InitRace /\ [][NextRace]_vars

(***************************************************************************)
(* view_recipe/recipe_viewer_components.py: process_recipe_image_large     *)
(***************************************************************************)
max_retries == 3
timeout == 15
backoff_factor == 1

ImageUrls == {"", "https://example/img.jpg"}

\* how one attempt can end: the image is downloaded and processed, or an
\* exception is raised (ConnectTimeout derives from ConnectionError and from
\* Timeout; "DNS" is a ConnectionError whose text says the name did not
\* resolve)
AttemptOutcomes == {"ok", "Timeout", "ConnectTimeout", "DNS", "ConnectionError",
                    "HTTPError", "UnidentifiedImageError"}

\* the except clause that takes the exception: the first that matches
ExceptClause(outcome) ==
    IF outcome \in {"Timeout", "ConnectTimeout"} THEN "Timeout"
    ELSE IF outcome \in {"DNS", "ConnectionError"} THEN "ConnectionError"
    ELSE "Exception"

RetriesAfterDns(outcome, attempt) == attempt < max_retries - 1

\* TRUE when the clause goes on to the next attempt (continue), FALSE when
\* it returns None
Retries(outcome, attempt) ==
    IF ExceptClause(outcome) = "ConnectionError" /\ outcome = "DNS" THEN FALSE
    ELSE attempt < max_retries - 1

ImageFrame == <<default_recipes, default_recipes_loaded, local_recipes,
                weekly_recipes, weekly_plans, meals_per_week,
                recipes_loaded_from_drive, drive_token, now, current_season,
                drive, last, drive_loads, steps, sel, call, settings_vars,
                viewer_vars, browse_vars, client_vars, cred_vars, recipe_vars,
                model_call, race>>

InitImage ==
    /\ OthersIdleForClient
    /\ ClientIdle
    /\ CredIdle
    /\ RecipeIdle
    /\ OtherIdle

\* process_recipe_image_large(image_url) is called
ImageCall(image_url) ==
    /\ image_call.op = "none"
    /\ image_call' =
         IF image_url = ""
         THEN [op |-> "done", url |-> image_url, attempt |-> 0,
               timeouts |-> <<>>, outcomes |-> <<>>, result |-> "None"]
         ELSE [op |-> "running", url |-> image_url, attempt |-> 0,
               timeouts |-> <<>>, outcomes |-> <<>>, result |-> "pending"]
    /\ UNCHANGED ImageFrame

\* one pass of the loop over range(max_retries); every clause returns on the
\* last pass, so the return after the loop is never reached
ImageAttempt(outcome) ==
    /\ image_call.op = "running"
    /\ image_call.attempt < max_retries
    /\ LET attempt == image_call.attempt
           current_timeout == timeout + attempt * backoff_factor
           tried == [image_call EXCEPT !.timeouts = Append(@, current_timeout),
                                       !.outcomes = Append(@, outcome)]
       IN  image_call' =
             IF outcome = "ok"
             THEN [tried EXCEPT !.op = "done", !.result = "image"]
             ELSE IF Retries(outcome, attempt)
             THEN [tried EXCEPT !.attempt = attempt + 1]
             ELSE [tried EXCEPT !.op = "done", !.result = "None"]
    /\ UNCHANGED ImageFrame

NextImage ==
    \/ \E u \in ImageUrls : ImageCall(u)
    \/ \E o \in AttemptOutcomes : ImageAttempt(o)

SpecImage == InitImage /\ [][NextImage]_vars

(***************************************************************************)
(* Properties                                                              *)
(***************************************************************************)
\* the week the last handler was about, now and before it ran
LastWeek == get_recipes_for_week(weekly_plans, now, last.offset)
LastWeekBefore == get_recipes_for_week(last.pre_plans, now, last.offset)
\* the recipe names held by the other three weeks of the four-week window
OtherWeekNames ==
    UNION {NamesOf(DictGet(weekly_plans, AddWeeks(now, w), <<>>)) :
              w \in (0..3) \ {last.offset}}

\* C1: auto-populate without force on a week that already holds a recipe
\* changes no week and returns False.
C1_NoForceKeepsPopulatedWeek ==
    (last.op = "populate" /\ ~last.force /\ Len(LastWeekBefore) > 0)
        => (weekly_plans = last.pre_plans /\ last.ret = "False")
C1_Witness ==
    /\ last.op = "populate" /\ ~last.force
    /\ Len(LastWeekBefore) > 0
    /\ last.all_recipes # <<>>

\* C2: auto-populate with force on an already-populated week, with at least
\* one recipe available, replaces the week by the chosen set and saves.
C2_ForceReplacesWeek ==
    (last.op = "populate" /\ last.force /\ Len(LastWeekBefore) > 0
        /\ last.all_recipes # <<>>)
        => (last.ret = "True" /\ LastWeek = last.selected /\ LastWeek # <<>>
            /\ last.save_called)

\* C3: when the selector raises or returns nothing while a recipe exists,
\* auto-populate still fills the week with a non-empty set.
C3_FallbackFillsWeek ==
    (last.op = "populate" /\ ~last.skipped /\ last.all_recipes # <<>>
        /\ last.selector \in {"raised", "empty"})
        => (last.ret = "True" /\ LastWeek # <<>> /\ LastWeek = last.selected)

\* C4: every manager operation that changed the plan has called
\* save_to_drive, and with Drive connected the uploaded document is the
\* current-week list plus the whole week map as they now stand.
ManagerOps == {"add_recipe_to_week", "remove_recipe_from_week", "clear_week",
               "populate", "add_recipe", "remove_recipe", "clear_all"}
PlanChanged == weekly_plans # last.pre_plans \/ weekly_recipes # last.pre_weekly
C4_MutationSavesFullPlan ==
    (last.op \in ManagerOps /\ PlanChanged)
        => /\ last.save_called
           /\ last.token =>
                last.payload = Some([current_week |-> weekly_recipes,
                                     weekly_plans |-> weekly_plans])
C4_Witness ==
    /\ last.op = "remove_recipe_from_week"
    /\ PlanChanged
    /\ last.token
    /\ last.payload.present
    /\ DOMAIN weekly_plans # {}

\* C5 as claimed: the load from Drive runs at most once in a session.
C5_LoadRunsAtMostOnce == drive_loads <= 1
\* C5 as amended: a page initialization that finds the loaded-from-drive
\* flag set does not load and leaves local_recipes, weekly_plans and
\* weekly_recipes as they were.
C5_NoReloadWhileFlagSet ==
    (last.op = "initialize_session_state" /\ last.flag_before)
        => /\ ~last.loaded
           /\ drive_loads >= 1
           /\ local_recipes = last.pre_locals
           /\ weekly_plans = last.pre_plans
           /\ weekly_recipes = last.pre_weekly
C5_Witness ==
    /\ last.op = "initialize_session_state"
    /\ last.flag_before
    /\ last.token

\* C6: a week filled through the seasonal selector holds no recipe whose
\* name appears in one of the other three weeks.
C6_SeasonalAvoidsOtherWeeks ==
    (last.op = "populate" /\ last.ret = "True" /\ last.path = "seasonal")
        => \A i \in DOMAIN LastWeek : LastWeek[i].name \notin OtherWeekNames
C6_Witness ==
    /\ last.op = "populate" /\ last.ret = "True" /\ last.path = "seasonal"
    /\ OtherWeekNames # {}
    /\ OtherWeekNames \cap NamesOf(last.all_recipes) # {}

\* C7: after a successful auto-populate the week holds at most
\* min(meals_per_week, number of recipes) recipes, and exactly that many
\* when that many distinct names are unused in the other three weeks.
C7_Target == Min(meals_per_week, Len(last.all_recipes))
C7_PopulateCount ==
    (last.op = "populate" /\ last.ret = "True")
        => /\ Len(LastWeek) <= C7_Target
           /\ Cardinality(NamesOf(last.all_recipes) \ OtherWeekNames) >= C7_Target
                => Len(LastWeek) = C7_Target
C7_Witness ==
    /\ last.op = "populate" /\ last.ret = "True" /\ last.path = "seasonal"
    /\ C7_Target = 2
    /\ C7_Target < Len(last.all_recipes)
    /\ Len(LastWeek) = 2

\* C8: the selector returns no two recipes with the same name and at most
\* the requested number, and the draw loop never makes more than
\* max_attempts (twice the weighted pool size) attempts.
C8_SelectorResult ==
    /\ sel.pc \in {"loop", "done"} =>
         /\ sel.st.attempts <= sel.st.max_attempts
         /\ sel.st.max_attempts = 2 * BagCardinality(sel.st.pool)
                \/ sel.st.attempts > 0
    /\ (sel.pc = "done" /\ ~sel.raised) =>
         /\ ~HasDuplicateNames(sel.result)
         /\ Len(sel.result) <= sel.num
C8_Witness ==
    /\ sel.pc = "done"
    /\ Len(sel.result) = 2
    /\ Len(sel.result) < sel.num
    /\ HasDuplicateNames(sel.recipes)
    /\ DOMAIN sel.st.pool = {}

\* the documents of the given name in an app folder that is not trashed
DocsNamed(d, name) ==
    {i \in DOMAIN d.files :
        d.files[i].name = name /\ d.files[i].parent \in LiveFolders(d)}

\* C9: Drive never holds two app folders or two documents of one name, a
\* successful save leaves exactly one app folder, and each document holds
\* the content of its most recent successful save.
C9_IdempotentUpsert ==
    /\ Cardinality(LiveFolders(drive)) <= 1
    /\ (call.op = "save" /\ call.exc = "none" /\ call.result)
          => Cardinality(LiveFolders(drive)) = 1
    /\ \A name \in DocumentNames :
          /\ Cardinality(DocsNamed(drive, name)) <= 1
          /\ call.saved[name].present =>
                \E i \in DocsNamed(drive, name) :
                    drive.files[i].content = call.saved[name].data
C9_Witness ==
    /\ call.op = "save" /\ call.exc = "none" /\ call.result
    /\ Len(drive.files) = Len(call.pre.files)
    /\ \E i \in DocsNamed(call.pre, call.name) :
          call.pre.files[i].content # drive.files[i].content

\* the API call named `at` is one the recorded storage call makes
ApiCallMade(at) ==
    CASE at = "list_folder"   -> TRUE
      [] at = "create_folder" -> call.op \in {"folder", "save", "load"}
                                 /\ LiveFolders(call.pre) = {}
      [] at = "list_file"     -> call.op \in {"save", "load"}
      [] at = "write_file"    -> call.op = "save"
      [] at \in {"download", "parse"} ->
                                 call.op = "load"
                                 /\ DocsNamed(call.pre, call.name) # {}
      [] at = "trash"         -> call.op = "delete" /\ LiveFolders(call.pre) # {}
      [] OTHER                -> FALSE
CallFailed == ~call.service \/ ApiCallMade(call.fault.at)

C11_SettingsRoundTrip ==
    ( /\ settings_call.op = "initialize_user_settings"
      /\ settings_call.token
      /\ settings_call.later
      /\ settings_call.requested.present )
    => meals_per_week = settings_call.requested.data


C13_IndexClamped ==
    (view_call.op = "get_selected_recipe" /\ view_call.returned.present)
    => /\ selected_recipe_idx.present
       /\ selected_recipe_idx.data \in 0..(Len(view_call.recipes) - 1)
       /\ view_call.returned.data = view_call.recipes[selected_recipe_idx.data + 1]

C13_Witness ==
    /\ view_call.op = "get_selected_recipe"
    /\ view_call.returned.present
    /\ view_call.idx_before.data < 0
    /\ selected_recipe_idx.data = 0
    /\ Len(view_call.recipes) > 1

\* C14: the viewer's add_to_weekly_recipes appends the recipe and returns
\* true when no entry of weekly_recipes has its name, otherwise it leaves
\* the list unchanged and returns false; weekly_recipes, changed by this
\* operation only, never holds two entries with the same name.
C14_AddDeduplicates ==
    /\ ~HasDuplicateNames(weekly_recipes)
    /\ (view_call.op = "add_to_weekly_recipes")
       => IF view_call.recipe.data.name \in NamesOf(view_call.pre_weekly)
          THEN weekly_recipes = view_call.pre_weekly /\ view_call.ret = "False"
          ELSE /\ weekly_recipes = Append(view_call.pre_weekly, view_call.recipe.data)
               /\ view_call.ret = "True"

C14_Witness ==
    /\ view_call.op = "add_to_weekly_recipes"
    /\ view_call.ret = "False"
    /\ view_call.recipe.data \notin Range(weekly_recipes)
    /\ Len(weekly_recipes) >= 1


\* C15: when the search text, the category selection or the source filter
\* has changed, current_page is 0 when the filtered list is next sliced.
C15_PageZeroAfterChange ==
    (browse_call.sliced /\ browse_call.changed)
    => /\ browse_call.page_at_slice = 0
       /\ browse_call.start_idx = 0
       /\ current_page = 0

C15_Witness ==
    /\ browse_call.sliced
    /\ browse_call.changed
    /\ browse_call.page_before = 1
    /\ browse_call.total > recipes_per_page
    /\ browse_call.op \in {"search", "categories", "source"}

\* the slice that follows a change can come in a later run of the page
C15_WitnessLater ==
    /\ browse_call.sliced
    /\ browse_call.changed
    /\ browse_call.op = "rerun"


\* C16: a client constructed while the runtime is unavailable is flagged
\* unavailable, and every later operation on it ends without raising and
\* without starting a subprocess: the bridge command answers
\* {success: false, error: "Node.js is not available"} and the operation
\* returns its failure value.
C16_UnavailableFailsSoft ==
    (client.constructed /\ client.node # "ok")
    => /\ ~client.nodejs_available
       /\ (client_call.op \in DOMAIN ReadOps \cup {"login"})
          => /\ ~client_call.raised
             /\ client_call.spawned = 0
             /\ client_call.bridge_called
                => client_call.result = BridgeFailure("Node.js is not available")
             /\ client_call.ret =
                  IF client_call.op = "login" THEN "False"
                  ELSE ReadOps[client_call.op].failed

C16_Witness ==
    /\ client.constructed
    /\ client.node = "nonzero"
    /\ client_call.op = "fetch_recipes"
    /\ client_call.bridge_called
    /\ client_call.ret = "[]"

\* the response the claim of C17 describes
C17_Expected(out) ==
    IF HasJson(out.stdout) THEN LastJson(out.stdout)
    ELSE IF HasJson(out.stderr) THEN LastJson(out.stderr)
    ELSE client_call.result

\* C17: the response is the last line of standard output that parses as a
\* JSON object; when standard output has none, also when it is empty, it
\* is the last such line of standard error; a structured failure is
\* returned only when neither stream has one.
C17_StderrFallback ==
    ( /\ client_call.op = "_run_bridge_command"
      /\ client.nodejs_available
      /\ ~bridge_out.raises )
    => /\ client_call.result = C17_Expected(bridge_out)
       /\ (~HasJson(bridge_out.stdout) /\ ~HasJson(bridge_out.stderr))
          => ~client_call.result.success

\* C18: a read operation on a client without a stored email or password
\* returns its empty result without calling the bridge, and the stored
\* credentials change only in the constructor or in a login that succeeds.
C18_NoCredentialsNoBridge ==
    /\ ( /\ client_call.op \in DOMAIN ReadOps \ {"create_recipe"}
         /\ (client_call.pre.email = "" \/ client_call.pre.password = "") )
       => /\ ~client_call.bridge_called
          /\ client_call.spawned = 0
          /\ ~client_call.raised
          /\ client_call.ret = ReadOps[client_call.op].failed
    /\ ( /\ client_call.op # "none"
         /\ \/ client.email # client_call.pre.email
            \/ client.password # client_call.pre.password )
       => \/ client_call.op = "__init__"
          \/ client_call.op = "login" /\ client_call.ret = "True"

C18_Witness ==
    /\ client_call.op = "get_lists"
    /\ client_call.pre.email # ""
    /\ client_call.pre.password = ""
    /\ client_call.pre.nodejs_available
    /\ ~client_call.bridge_called


\* every text a reader finds in the credential file
CredFileTexts ==
    LET creds == load_all_credentials(creds_file)
    IN  UNION {{<<"plain", u>>, <<"plain", creds[u].email>>,
                FieldText(creds[u].password)} : u \in DOMAIN creds}

RecipeMutators ==
    {"add_ingredient", "remove_ingredient", "add_step",
     "set_as_ingredient_producer", "remove_ingredient_production"}

\* C20 as stated: the version starts at 1, every call of a mutating
\* operation increments it, and the id never changes.
C20_EveryCallIncrements ==
    /\ recipe_obj.version >= 1
    /\ recipe_obj.id = recipe_call.pre.id
    /\ recipe_call.op \in RecipeMutators
       => recipe_obj.version = recipe_call.pre.version + 1

\* C20, amended: the version starts at 1; add_ingredient, add_step,
\* set_as_ingredient_producer and remove_ingredient_production increment it
\* on every call; remove_ingredient increments it once when it removes
\* something and leaves it unchanged when it returns false; the version
\* never decreases and the id never changes.
C20_VersionMonotone ==
    /\ recipe_obj.version >= 1
    /\ recipe_obj.version >= recipe_call.pre.version
    /\ recipe_obj.id = recipe_call.pre.id
    /\ (recipe_call.op = "none") => recipe_obj.version = 1
    /\ (recipe_call.op \in RecipeMutators)
       => recipe_obj.version =
            IF recipe_call.op = "remove_ingredient" /\ recipe_call.ret = "False"
            THEN recipe_call.pre.version
            ELSE recipe_call.pre.version + 1
    /\ (recipe_call.op = "remove_ingredient")
       => (recipe_call.ret = "True"
           <=> Len(recipe_obj.recipe_ingredients)
                 < Len(recipe_call.pre.recipe_ingredients))
    /\ (recipe_call.op = "remove_ingredient" /\ recipe_call.ret = "False")
       => recipe_obj.recipe_ingredients = recipe_call.pre.recipe_ingredients

C20_Witness ==
    /\ recipe_call.op = "remove_ingredient"
    /\ recipe_call.ret = "True"
    /\ Len(recipe_call.pre.recipe_ingredients)
         = Len(recipe_obj.recipe_ingredients) + 2
    /\ recipe_obj.version = 4
    /\ recipe_obj.id = "uuid"


\* C21: Recipe.from_dict(r.to_dict()) reproduces every field of r: id, names
\* and descriptions in both languages, nested ingredients, steps and photos,
\* enum fields, version and timestamps.
C21_RecipeRoundTrip ==
    model_call.op = "round_trip"
    => /\ ~model_call.out.raised
       /\ model_call.out.obj = model_call.input

\* C22: an Ingredient with an empty id or an empty Norwegian name, and a
\* Recipe with an empty Norwegian name, cannot be constructed, neither
\* directly nor with from_dict: the attempt raises.
C22_EmptyIdentityRejected ==
    /\ (model_call.op = "Ingredient"
        /\ (model_call.input[1] = "" \/ model_call.input[2] = ""))
       => model_call.out.raised
    /\ (model_call.op = "Recipe" /\ model_call.input[2] = "")
       => model_call.out.raised
    /\ (model_call.op \in {"Ingredient.from_dict", "Recipe.from_dict"}
        /\ ~model_call.out.raised)
       => /\ model_call.out.obj.id # ""
          /\ model_call.out.obj.names.no # ""


MirrorOps == ManagerOps \cup {"browse_add", "viewer_add"}

\* C23: every change of weekly_plans or weekly_recipes made by a handler of
\* a page is followed, in the same handler, by a save of the changed
\* collections to cloud storage; with a Drive token the payload written is
\* the present state.
C23_EveryMutationMirrored ==
    (last.op \in MirrorOps /\ PlanChanged)
        => /\ last.save_called
           /\ last.token =>
                last.payload = Some([current_week |-> weekly_recipes,
                                     weekly_plans |-> weekly_plans])


\* at every day of the present week, offset k addresses the ISO week k weeks
\* ahead; the four keys are distinct as text, parse back, and start 7 days
\* apart
WeekKeysConsecutive ==
    /\ \A k \in WeekOffsets, dow \in 0..6 :
          get_week_key(now, k) = isocalendar(get_week_date_range(now) + dow + 7 * k)
    /\ \A k \in WeekOffsets :
          parse_week_key(WeekKeyText(get_week_key(now, k))) = get_week_key(now, k)
    /\ \A j, k \in WeekOffsets :
          j # k => WeekKeyText(get_week_key(now, j)) # WeekKeyText(get_week_key(now, k))
    /\ \A k \in 0..2 :
          get_week_date_range(get_week_key(now, k + 1))
            = get_week_date_range(get_week_key(now, k)) + 7

\* when a week has passed, what offset k showed is shown at offset k-1
WeekShifts ==
    now' # now
    => \A k \in 1..3 :
          get_recipes_for_week(weekly_plans', now', k - 1)
            = get_recipes_for_week(weekly_plans, now, k)

\* C24: week keys name ISO calendar weeks independently of today: recipes
\* stored at offset k (1..3) are returned at offset k-1 one week later, and
\* at any instant offsets 0..3 address four distinct consecutive week keys,
\* also across an ISO year boundary.
C24_WeekKeysFollowCalendar == [](WeekKeysConsecutive) /\ [][WeekShifts]_vars

C24_Witness ==
    /\ last.op = "advance"
    /\ now = <<2027, 1>>
    /\ get_recipes_for_week(weekly_plans, now, 0) # <<>>
    /\ get_week_key(now, 3) = <<2027, 4>>


RaceQuiet == \A s \in Sessions : race.pc[s] = "idle"

\* C25: with two sessions saving the same document, once both saves are
\* complete the stored document is the whole payload of the save whose
\* upload finished last.
C25_LastWriteWins ==
    (RaceQuiet /\ race.last_upload # "none")
    => load_weekly_recipes(drive, TRUE, NoFault).result
         = Some(RacePayload(race.last_upload))

\* C28: however the lookup-then-create steps of two sessions interleave,
\* cloud storage never holds two app folders, nor two documents of the same
\* name inside an app folder.
C28_NoDuplicateFolderOrDocument ==
    /\ Cardinality(LiveFolders(drive)) <= 1
    /\ \A f \in LiveFolders(drive) :
          Cardinality(LiveFiles(drive, f, weekly_recipes_file)) <= 1


\* C26: the hero image download makes at most 3 attempts, with timeouts of
\* 15, 16 and 17 seconds, and ends with an image or with nothing; a DNS
\* failure ends it at once, a timeout or another connection error is
\* followed by a further attempt unless it was the third.
C26_ImageFetchBounded ==
    image_call.op # "none" =>
      LET n == Len(image_call.outcomes)
      IN  /\ n <= 3
          /\ image_call.timeouts = SubSeq(<<15, 16, 17>>, 1, n)
          /\ image_call.op = "running" => n < 3
          /\ image_call.op = "done" =>
               /\ image_call.result \in {"image", "None"}
               /\ image_call.result = "image"
                    <=> (n > 0 /\ image_call.outcomes[n] = "ok")
          /\ \A i \in 1..n :
               /\ image_call.outcomes[i] = "DNS"
                    => (i = n /\ image_call.op = "done"
                        /\ image_call.result = "None")
               /\ (image_call.outcomes[i]
                      \in {"Timeout", "ConnectTimeout", "ConnectionError"}
                   /\ i < 3)
                    => (i < n \/ image_call.op = "running")

C26_Witness ==
    /\ image_call.op = "done"
    /\ image_call.outcomes = <<"Timeout", "ConnectionError", "Timeout">>
    /\ image_call.timeouts = <<15, 16, 17>>
    /\ image_call.result = "None"


\* the weekly document as it is stored, if there is one
StoredWeeklyDocs ==
    {drive.files[i].content :
        i \in {j \in DOMAIN drive.files :
                 /\ drive.files[j].name = weekly_recipes_file
                 /\ drive.files[j].parent \in LiveFolders(drive)}}

\* C27: what save_to_drive wrote is what a later load restores: after a
\* load from Drive, weekly_plans of the session is the map held by the
\* stored weekly document.
C27_SavedPlansRestored ==
    (last.op = "load_button" /\ recipes_loaded_from_drive)
    => \A doc \in StoredWeeklyDocs : weekly_plans = doc.weekly_plans

WeekOps ==
    {"add_recipe_to_week", "remove_recipe_from_week", "clear_week", "populate"}

\* the handler last run was remove_recipe_from_week on a week without an
\* entry, or with an index outside that week's list
RemoveOutOfRange ==
    /\ last.op = "remove_recipe_from_week"
    /\ LET week_key == get_week_key(now, last.offset)
       IN  \/ week_key \notin DOMAIN last.pre_plans
           \/ last.index < 0
           \/ last.index >= Len(last.pre_plans[week_key])

\* C29: add_recipe_to_week, remove_recipe_from_week, clear_week and
\* populate_week_with_random_recipes on one week offset leave the list stored
\* under every other week key as it was and add no key but that week's; a
\* remove with an index outside the week's list, or on a week that has no
\* entry, leaves the whole weekly_plans dictionary as it was.
C29_OtherWeeksUntouched ==
    /\ last.op \in WeekOps =>
        LET week_key == get_week_key(now, last.offset)
        IN  /\ \A k \in DOMAIN last.pre_plans \ {week_key} :
                   k \in DOMAIN weekly_plans /\ weekly_plans[k] = last.pre_plans[k]
            /\ DOMAIN weekly_plans \subseteq DOMAIN last.pre_plans \cup {week_key}
    /\ RemoveOutOfRange => weekly_plans = last.pre_plans

\* an operation has rewritten one week while another week held recipes
C29_Witness ==
    /\ last.op \in WeekOps
    /\ weekly_plans # last.pre_plans
    /\ \E k \in DOMAIN last.pre_plans \ {get_week_key(now, last.offset)} :
           last.pre_plans[k] # <<>>

\* the number of pages of a list of n recipes: ceil(n / 10)
PagesOf(n) == (n + recipes_per_page - 1) \div recipes_per_page

\* the positions of the filtered list that page p shows under the controls
\* as they stand
PageRows(p) ==
    LET r == view_all_recipes(default_recipes, local_recipes, search,
                              categories, source, p)
    IN  (r.start_idx + 1)..r.end_idx

\* C30: whenever the browse page slices a non-empty filtered list of n
\* recipes, 0 <= current_page < ceil(n / 10); the slice shown is non-empty
\* and holds at most 10 recipes; "Next 10" is offered exactly when a later
\* page exists and moves one page on, and the pages 0 .. ceil(n / 10) - 1
\* together show every position of the filtered list exactly once.
C30_PageWithinBounds ==
    browse_call.sliced =>
        /\ browse_call.total > 0
        /\ current_page = browse_call.page_at_slice
        /\ 0 <= current_page
        /\ current_page < PagesOf(browse_call.total)
        /\ browse_call.start_idx = current_page * recipes_per_page
        /\ browse_call.start_idx < browse_call.end_idx
        /\ browse_call.end_idx <= browse_call.total
        /\ browse_call.end_idx - browse_call.start_idx <= recipes_per_page
        /\ browse_call.next_shown
             <=> current_page < PagesOf(browse_call.total) - 1
        /\ browse_call.previous_shown <=> current_page > 0
        /\ browse_call.op = "next"
             => current_page = browse_call.page_before + 1
        /\ \A i \in 1..browse_call.total :
               Cardinality({p \in 0..(PagesOf(browse_call.total) - 1) :
                               i \in PageRows(p)}) = 1

\* the list has shrunk to a single page while page 2 was shown, without any
\* control changing, and the page is sliced again
C30_Witness ==
    /\ browse_call.sliced
    /\ browse_call.op = "rerun"
    /\ ~browse_call.changed
    /\ browse_call.page_before = 1
    /\ current_page = 0
    /\ browse_call.total <= recipes_per_page

\* "Next 10" has led to the last, shorter page
C30_WitnessLastPage ==
    /\ browse_call.sliced
    /\ browse_call.op = "next"
    /\ current_page = 1
    /\ ~browse_call.next_shown
    /\ browse_call.end_idx - browse_call.start_idx < recipes_per_page

====
